---- MODULE Spec2Model ----
(***************************************************************************)
(* A model of the SpecPilot backend: the job aggregate (job_manager.py),   *)
(* the generation pipeline (generation_pipeline.py) and the request        *)
(* handlers of routes/generation.py and routes/staged_endpoints.py.        *)
(*                                                                         *)
(* All handlers and background tasks are coroutines of one asyncio event   *)
(* loop.  A coroutine keeps the loop until it awaits something that really *)
(* suspends: the only such points in the code are asyncio.sleep (between   *)
(* the stages of GenerationPipeline.run, and at the end of                 *)
(* generate_more_tests) and the end of a handler, after which its          *)
(* background task is started later.  The generator and parser calls are   *)
(* synchronous: while one is in progress the coroutine making it holds the *)
(* loop (variable loop) and nothing else runs.                             *)
(*                                                                         *)
(* Spec is the monolithic and staged orchestration from an empty registry, *)
(* SpecStaged the staged workflow alone, SpecStore the edit, delete and    *)
(* regeneration handlers on a job that holds artifacts, SpecRisk the       *)
(* cascade analysis on jobs of every size, SpecObserve the orchestration   *)
(* with the status and download requests of a client, SpecPoll the         *)
(* regeneration of tests with status polls, SpecEdit every edit, delete,   *)
(* regeneration and cascade-analysis handler with the tasks they start,    *)
(* SpecSteps Job.update_step on the step lists a job can hold, SpecRetry   *)
(* the stage requests on a job whose staged generation has failed,         *)
(* SpecJobs the staged workflows of two jobs side by side, SpecMore the    *)
(* generate_more requests of the staged router, SpecNoFile the jobs whose  *)
(* document could not be saved, SpecDrive validated jobs taken through     *)
(* every stage they have enabled, SpecInvoke the retry loop of the         *)
(* generator client (llm_client.py).                                       *)
(***************************************************************************)
EXTENDS Integers, Sequences, FiniteSets, TLC

\* ---------------------------------------------------------------- bounds
MaxRequests == 3
MaxStagedRequests == 4
MaxTasks == 2
MaxStoreRequests == 2
MaxRiskRequests == 2
MaxObserveRequests == 3
MaxPollRequests == 3
MaxEditRequests == 2
MaxRetryRequests == 3
MaxJobsRequests == 3
MaxMoreRequests == 3
MaxNoFileRequests == 3
MaxDriveRequests == 3
MaxInvocations == 2
MaxSteps == 3
MaxStepUpdates == 2
MaxGen == 1
MaxCount == 10
MaxEntities == 6

\* ------------------------------------------------------------- constants
JobId == "j1"
JobIds == {"j1", "jx"}

None == "none"

Stages == <<"EPICS", "DATA_MODEL", "FUNCTIONAL_TESTS", "GHERKIN_TESTS", "CODE_GENERATION">>
StageNames == {Stages[i] : i \in 1..Len(Stages)}
StageInputs == StageNames \cup {"BOGUS"}

\* The phases of GenerationPipeline, in the order run() takes them; phase 0
\* is the document parse.
PhaseStep == <<"Generating project name", "Generating Data Model",
               "Generating Functional Tests", "Generating Gherkin Tests",
               "Generating Code Skeleton">>
ParseStep == "Parsing documents"
SaveStep == "Saving the document"
EpicsStep == "Generating EPICs & User Stories"

\* proceed_to_stage's if/elif chain: the pipeline method run for a stage.
PhaseOfStage(stage) ==
    CASE stage = "EPICS" -> 1
      [] stage = "FUNCTIONAL_TESTS" -> 3
      [] stage = "GHERKIN_TESTS" -> 4
      [] stage = "DATA_MODEL" -> 2
      [] stage = "CODE_GENERATION" -> 5

AllOn == [epics_and_stories |-> TRUE, functional_tests |-> TRUE, gherkin_tests |-> TRUE,
          data_model |-> TRUE, code_skeleton |-> TRUE]
NoDataModel == [AllOn EXCEPT !.data_model = FALSE, !.code_skeleton = FALSE]
NoTests == [AllOn EXCEPT !.functional_tests = FALSE, !.gherkin_tests = FALSE]
Configs == {NoDataModel, NoTests}

DocChunks == <<"c1", "c2", "c3">>

VARIABLES
    exists,            \* the job is in job_manager.jobs
    artefacts,         \* job.artefacts
    status,            \* job.status
    error,             \* job.error
    steps,             \* job.steps
    brd_data,          \* job.brd_data
    brd_file,          \* generated/<job_id>/brd.* is on disk
    current_stage,     \* job.current_stage
    stage_history,     \* job.stage_history
    epics,             \* job.results.epics
    user_stories,      \* job.results.user_stories
    functional_tests,  \* job.results.functional_tests
    gherkin_tests,     \* job.results.gherkin_tests
    entities,          \* job.results.entities
    mermaid,           \* job.results.mermaid
    code_skeleton,     \* job.results.code_skeleton
    gap_fixes,         \* job.results.gap_fixes
    tasks,             \* the background tasks, in the order they were added
    loop,              \* the task holding the event loop, 0 when it is free
    response,          \* the response of the last request handled, or how the
                       \* regeneration task that ended since ended
    nreq,              \* number of requests handled
    budget,            \* number of requests the clients issue
    clock,             \* datetime.now()
    nextRef,           \* identity of the next UserStory object
    gen_call,          \* the last request sent to the generator
    impact,            \* the DependencyImpact reports returned so far
    other,             \* the other job of job_manager.jobs and its staged task
    invoke             \* the _invoke_claude call of the generator client

jobVars == <<exists, artefacts, status, error, steps, brd_data, brd_file,
             current_stage, stage_history>>
storeVars == <<epics, user_stories, functional_tests, gherkin_tests, entities,
               mermaid, code_skeleton, gap_fixes, nextRef>>
vars == <<exists, artefacts, status, error, steps, brd_data, brd_file,
          current_stage, stage_history, epics, user_stories, functional_tests,
          gherkin_tests, entities, mermaid, code_skeleton, gap_fixes, nextRef,
          tasks, loop, response, nreq, budget, clock, gen_call, impact, other, invoke>>

\* ------------------------------------------------------------ sequences
RECURSIVE SelectIdx(_, _, _)
SelectIdx(s, Test(_), i) ==
    IF i > Len(s) THEN 0
    ELSE IF Test(s[i]) THEN i ELSE SelectIdx(s, Test, i + 1)

Range(s) == {s[i] : i \in 1..Len(s)}

NoResponse ==
    [op |-> "none", job |-> None, arg |-> None, code |-> 0, status |-> "none",
     n1 |-> 0, n2 |-> 0]

Resp(op, job, arg, code, st, a, b) ==
    [op |-> op, job |-> job, arg |-> arg, code |-> code, status |-> st,
     n1 |-> a, n2 |-> b]

\* ------------------------------------------------------------------ Job
\* Job.add_step for each enabled artefact, in the order of generate /
\* proceed_to_generation.
StageSteps(cfg) ==
    LET st(name) == <<[name |-> name, status |-> "pending", duration_ms |-> None]>>
    IN  (IF cfg.epics_and_stories THEN st(PhaseStep[1]) \o st(EpicsStep) ELSE <<>>)
        \o (IF cfg.data_model THEN st(PhaseStep[2]) ELSE <<>>)
        \o (IF cfg.functional_tests THEN st(PhaseStep[3]) ELSE <<>>)
        \o (IF cfg.gherkin_tests THEN st(PhaseStep[4]) ELSE <<>>)
        \o (IF cfg.code_skeleton THEN st(PhaseStep[5]) ELSE <<>>)

add_step(ss, name) ==
    Append(ss, [name |-> name, status |-> "pending", duration_ms |-> None])

\* Faulty variant: update_step without its break, every step of that name is updated.
update_step_all(ss, name, st, dur) ==
    [i \in 1..Len(ss) |->
        IF ss[i].name = name
        THEN [name |-> name, status |-> st,
              duration_ms |-> IF dur # None THEN dur ELSE ss[i].duration_ms]
        ELSE ss[i]]

\* Faulty variant: a step is added when no step has that name.
update_or_add_step(ss, name, st, dur) ==
    IF \E i \in 1..Len(ss) : ss[i].name = name
    THEN update_step_all(ss, name, st, dur)
    ELSE Append(ss, [name |-> name, status |-> st, duration_ms |-> dur])

\* Job.update_step: the first step of that name, nothing when there is none.
update_step(ss, name, st, dur) ==
    LET IsName(x) == x.name = name
        i == SelectIdx(ss, IsName, 1)
    IN  IF i = 0 THEN ss
        ELSE [ss EXCEPT ![i] = [name |-> name, status |-> st,
                                duration_ms |-> IF dur # None THEN dur
                                                ELSE ss[i].duration_ms]]

\* The except block of GenerationPipeline.run: the first running step fails.
fail_running_step(ss) ==
    LET IsRunning(x) == x.status = "running"
        i == SelectIdx(ss, IsRunning, 1)
    IN  IF i = 0 THEN ss ELSE [ss EXCEPT ![i].status = "failed"]

\* Job.advance_stage
advance_stage(hist, cur, next) ==
    LET closed == [i \in 1..Len(hist) |->
                      IF cur # None /\ hist[i].stage = cur
                      THEN [hist[i] EXCEPT !.status = "completed",
                                           !.completed_at = TRUE,
                                           !.user_approved = TRUE]
                      ELSE hist[i]]
    IN  Append(closed, [stage |-> next, status |-> "running",
                        completed_at |-> FALSE, user_approved |-> FALSE])

\* Job.complete_current_stage
complete_current_stage(hist, cur) ==
    [i \in 1..Len(hist) |->
        IF cur # None /\ hist[i].stage = cur
        THEN [hist[i] EXCEPT !.status = "completed", !.completed_at = TRUE]
        ELSE hist[i]]

\* Faulty variant: the re-entry check never finds a completed StageState.
stage_never_completed(hist, stage) == FALSE

stage_already_completed(hist, stage) ==
    \E i \in 1..Len(hist) : hist[i].stage = stage /\ hist[i].status = "completed"

JobFound(jid) == exists /\ jid = JobId

\* Faulty variant: a stage is accepted only when the stage before it in the enum has
\* a completed StageState, whether or not that stage is enabled.
stage_in_sequence(next_stage) ==
    /\ next_stage \in StageNames
    /\ \A i \in 2..Len(Stages) :
          Stages[i] = next_stage
          => \E k \in 1..Len(stage_history) :
                /\ stage_history[k].stage = Stages[i - 1]
                /\ stage_history[k].status \in {"running", "completed"}

\* PipelineStage(next_stage) of proceed_to_stage: the name is a stage.
valid_stage(next_stage) == next_stage \in StageNames

\* ------------------------------------------------------------ artifacts
EmptyOut == [epics |-> <<>>, stories |-> <<>>, tests |-> <<>>, entities |-> <<>>]

NewEpic(id) == [id |-> id, name |-> "N0", description |-> "D0", edited_at |-> 0]
NewStory(id, epic, chunks, acs) ==
    [ref |-> 0, id |-> id, epic_id |-> epic, title |-> "T0", role |-> "R0",
     goal |-> "G0", benefit |-> "B0", acceptance_criteria |-> acs,
     source_chunks |-> chunks, edited_at |-> 0, regeneration_needed |-> FALSE]
NewAC(id, chunks) == [id |-> id, text |-> "A0", source_chunks |-> chunks]
NewTest(id, sid) == [id |-> id, story_id |-> sid, regenerated_at |-> 0]
NewEntity(name) == [name |-> name, source_story_ids |-> {}, regenerated_at |-> 0]

NoStory == NewStory(None, None, {}, <<>>)

StoryIdsOf(ss) == {ss[i].id : i \in 1..Len(ss)}

\* UserStory(**story_data): each new object gets its own identity.
WithRefs(ss, from) == [i \in 1..Len(ss) |-> [ss[i] EXCEPT !.ref = from + i - 1]]

\* ------------------------------------------------------ background tasks
\* kind: "run" (GenerationPipeline.run, started by generate or
\* proceed_to_generation), "stage" (run_stage_generation of proceed_to_stage).
\* pc: "queued" (added, not started), "mid" (inside the parser or generator
\* call of phase), "between" (phase finished, still holding the loop),
\* "sleep" (in asyncio.sleep after phase), "done".  ran is the set of the
\* phases the task has finished without error.
\* "regen_tests" is _regenerate_tests of regenerate_story_tests: story is the
\* UserStory object its closure holds; pre_f and pre_g record the test
\* collections as they were when the task started, foreign that the
\* generator answered it with a test for a story it was not given.  Its pc
\* is "swap" between the removal of the story's old tests and the insertion
\* of the tests of the generator's reply.
\* "more" is run_generate_more of generate_more: stage and context are the
\* stage and the context_ids of its request.
NewTask(kind, stage, save) ==
    [kind |-> kind, pc |-> "queued", phase |-> 0, stage |-> stage, save |-> save,
     story |-> NoStory, stamp |-> 0, pre_f |-> <<>>, pre_g |-> <<>>,
     foreign |-> FALSE, ran |-> {}, context |-> {}]

TaskIds == 1..Len(tasks)
Live(t) == tasks[t].pc # "done"

\* Faulty variant: run() takes the epics stage only.
only_epics_enabled(i) == i = 1 /\ artefacts.epics_and_stories

\* The condition guarding phase i in GenerationPipeline.run.
PhaseEnabled(i) ==
    CASE i = 1 -> artefacts.epics_and_stories
      [] i = 2 -> artefacts.data_model /\ user_stories # <<>>
      [] i = 3 -> artefacts.functional_tests /\ user_stories # <<>>
      [] i = 4 -> artefacts.gherkin_tests /\ user_stories # <<>>
      [] i = 5 -> artefacts.code_skeleton /\ entities # <<>>

\* The first phase from i on that run() would execute, 0 when there is none.
RECURSIVE NextPhase(_)
NextPhase(i) ==
    IF i > Len(PhaseStep) THEN 0
    ELSE IF PhaseEnabled(i) THEN i ELSE NextPhase(i + 1)

StepOfPhase(p) == IF p = 0 THEN ParseStep ELSE PhaseStep[p]

\* What the generator may answer to the call of phase p in a pipeline run:
\* nothing, or one artifact for the first story it was given.
PipelineOutputs(p) ==
    CASE p = 0 -> {EmptyOut}
      [] p = 1 -> {EmptyOut,
                   [EmptyOut EXCEPT !.epics = <<NewEpic("e1")>>,
                                    !.stories = <<NewStory("s1", "e1", {"c1"}, <<>>)>>]}
      [] p \in {3, 4} ->
            IF user_stories = <<>> THEN {EmptyOut}
            ELSE {[EmptyOut EXCEPT !.tests = <<NewTest("t1", user_stories[1].id)>>]}
      [] p = 2 -> {EmptyOut, [EmptyOut EXCEPT !.entities = <<NewEntity("n1")>>]}
      [] p = 5 -> {EmptyOut}

\* ------------------------------------------------------------- pipeline
\* What a pipeline method stores when its call succeeded.
StoreResult(p, out) ==
    /\ brd_data' = IF p = 0 THEN [parsed |-> TRUE, chunks |-> DocChunks] ELSE brd_data
    /\ epics' = IF p = 1 THEN epics \o out.epics ELSE epics
    /\ user_stories' = IF p = 1 THEN user_stories \o WithRefs(out.stories, nextRef)
                       ELSE user_stories
    /\ nextRef' = IF p = 1 THEN nextRef + Len(out.stories) ELSE nextRef
    /\ functional_tests' = IF p = 3 THEN functional_tests \o out.tests
                           ELSE functional_tests
    /\ gherkin_tests' = IF p = 4 THEN gherkin_tests \o out.tests ELSE gherkin_tests
    /\ entities' = IF p = 2 THEN entities \o out.entities ELSE entities
    /\ mermaid' = IF p = 2 THEN clock + 1 ELSE mermaid
    /\ code_skeleton' = IF p = 5 THEN TRUE ELSE code_skeleton
    /\ UNCHANGED gap_fixes

\* The step updates of a pipeline method that succeeded.
StepsCompleted(ss, p) ==
    IF p = 1
    THEN update_step(update_step(ss, PhaseStep[1], "completed", "ms"),
                     EpicsStep, "completed", "zero")
    ELSE update_step(ss, StepOfPhase(p), "completed", "ms")

GenKind == <<"epics_and_stories", "data_model", "functional_tests", "gherkin_tests",
             "code_skeleton">>
NoCall == [kind |-> None, stories |-> <<>>, chunks |-> <<>>, gap_fixes |-> <<>>]

\* Faulty variant: the chunks of the acceptance criteria are left out.
chunk_ids_direct(stories) ==
    UNION {stories[i].source_chunks : i \in 1..Len(stories)}

\* The chunk ids a list of stories refers to, directly or through their
\* acceptance criteria.
chunk_ids(stories) ==
    UNION {stories[i].source_chunks \cup
           UNION {stories[i].acceptance_criteria[k].source_chunks :
                     k \in 1..Len(stories[i].acceptance_criteria)} :
           i \in 1..Len(stories)}

\* The entries of the job's chunk index with these ids, in index order.
brd_chunks(ids) ==
    IF brd_data.parsed THEN SelectSeq(brd_data.chunks, LAMBDA c : c \in ids) ELSE <<>>

SetTask(t, pc, p) == tasks' = [tasks EXCEPT ![t].pc = pc, ![t].phase = p]

\* A pipeline method starts: its step becomes running and the parser or
\* generator call begins.
BeginPhase(t, p) ==
    /\ UNCHANGED budget
    /\ gen_call' = IF p = 0 THEN gen_call
                   ELSE [kind |-> GenKind[p],
                         stories |-> [i \in 1..Len(user_stories) |-> user_stories[i].id],
                         chunks |-> IF p = 3 THEN brd_chunks(chunk_ids(user_stories))
                                    ELSE <<>>,
                         gap_fixes |-> <<>>]
    /\ response' = NoResponse
    /\ steps' = update_step(steps, StepOfPhase(p), "running", None)
    /\ SetTask(t, "mid", p)
    /\ loop' = t

\* A background task is started by the server after its response was sent.
RunStart(t) ==
    /\ loop = 0
    /\ tasks[t].kind = "run" /\ tasks[t].pc = "queued"
    /\ brd_file' = (brd_file \/ tasks[t].save)
    /\ status' = "running"
    /\ BeginPhase(t, 0)
    /\ UNCHANGED <<exists, artefacts, error, brd_data, current_stage, stage_history,
                   storeVars, nreq, clock, impact, other, invoke>>

StageTaskStart(t) ==
    /\ loop = 0
    /\ tasks[t].kind = "stage" /\ tasks[t].pc = "queued"
    /\ BeginPhase(t, IF brd_data.parsed THEN PhaseOfStage(tasks[t].stage) ELSE 0)
    /\ UNCHANGED <<exists, artefacts, status, error, brd_data, brd_file, current_stage,
                   stage_history, storeVars, nreq, clock, impact, other, invoke>>

\* The parser or generator call of a pipeline method returns.
PhaseSucceeds(t, out) ==
    LET p == tasks[t].phase
        last == (tasks[t].kind = "run" /\ p = 5) \/ (tasks[t].kind = "stage" /\ p > 0)
    IN  /\ loop = t
        /\ tasks[t].kind \in {"run", "stage"} /\ tasks[t].pc = "mid"
        /\ out \in PipelineOutputs(p)
        /\ StoreResult(p, out)
        /\ steps' = StepsCompleted(steps, p)
        /\ response' = NoResponse /\ UNCHANGED <<budget, gen_call>>
        /\ tasks' = [tasks EXCEPT
                        ![t].pc = IF last THEN "done"
                                  ELSE IF p = 0 THEN "between" ELSE "sleep",
                        ![t].ran = @ \cup {p}]
        /\ loop' = IF p = 0 THEN t ELSE 0
        /\ status' = IF last /\ tasks[t].kind = "run" THEN "completed" ELSE status
        /\ stage_history' = IF last /\ tasks[t].kind = "stage"
                            THEN complete_current_stage(stage_history, current_stage)
                            ELSE stage_history
        /\ clock' = IF p = 2 THEN clock + 1 ELSE clock
        /\ UNCHANGED <<exists, artefacts, error, brd_file, current_stage,
                       nreq, impact, other, invoke>>

\* What a pipeline method has stored when it raises: nothing when the call
\* itself raised, the entries before the faulty one when the reply could not
\* be parsed to the end (the epics without their stories, some of the tests
\* or entities).
PartialOutputs(p) ==
    CASE p = 1 -> {EmptyOut, [EmptyOut EXCEPT !.epics = <<NewEpic("e1")>>]}
      [] p \in {2, 3, 4} -> PipelineOutputs(p) \cup {EmptyOut}
      [] OTHER -> {EmptyOut}

\* Faulty variant: the method that raises drops what the collection held.
reset_on_failure(stored, part) == part

\* "job.results.<collection>.append(...)" for the entries parsed before the
\* exception: what the collection held stays in place.
kept_on_failure(stored, part) == stored \o part

\* Faulty variant: the method that raises leaves its step as it is.
leave_step_running(ss, name) == ss

\* The method marks its own step failed before it re-raises.
mark_step_failed(ss, name) == update_step(ss, name, "failed", None)

\* Faulty variant: the handler of the task swallows the exception.
swallow_failure(e) == UNCHANGED <<status, error>>

\* Job.mark_failed
mark_failed(e) == status' = "failed" /\ error' = e

\* The call raises or its reply cannot be parsed: the method marks its step
\* failed and re-raises; the task's handler marks the job failed (run() also
\* fails the first running step).
PhaseFails(t, part) ==
    LET p == tasks[t].phase
        failed == mark_step_failed(steps, StepOfPhase(p))
    IN  /\ loop = t
        /\ tasks[t].kind \in {"run", "stage"} /\ tasks[t].pc = "mid"
        /\ part \in PartialOutputs(p)
        /\ steps' = IF tasks[t].kind = "run" THEN fail_running_step(failed) ELSE failed
        /\ mark_failed(StepOfPhase(p))
        /\ epics' = IF p = 1 THEN kept_on_failure(epics, part.epics) ELSE epics
        /\ functional_tests' = IF p = 3 THEN kept_on_failure(functional_tests, part.tests)
                               ELSE functional_tests
        /\ gherkin_tests' = IF p = 4 THEN kept_on_failure(gherkin_tests, part.tests)
                            ELSE gherkin_tests
        /\ entities' = IF p = 2 THEN kept_on_failure(entities, part.entities)
                       ELSE entities
        /\ SetTask(t, "done", p)
        /\ response' = NoResponse /\ UNCHANGED <<budget, gen_call>>
        /\ loop' = 0
        /\ UNCHANGED <<exists, artefacts, brd_data, brd_file, current_stage,
                       stage_history, user_stories, mermaid, code_skeleton, gap_fixes,
                       nextRef, nreq, clock, impact, other, invoke>>

\* run_generation_pipeline cannot write the uploaded document (the open or
\* the write raises): its except block marks the job failed, the pipeline
\* is not run and no document is on disk.
RunSaveFails(t) ==
    /\ loop = 0
    /\ tasks[t].kind = "run" /\ tasks[t].pc = "queued" /\ tasks[t].save
    /\ mark_failed(SaveStep)
    /\ SetTask(t, "done", 0)
    /\ loop' = 0
    /\ response' = NoResponse
    /\ UNCHANGED <<exists, artefacts, steps, brd_data, brd_file, current_stage,
                   stage_history, storeVars, nreq, budget, clock, gen_call, impact, other, invoke>>

\* The task goes on after the parse (still holding the loop) or wakes from
\* asyncio.sleep: run() takes the next phase whose condition holds, or
\* completes the job; run_stage_generation takes its stage's method.
Resume(t) ==
    LET nxt == IF tasks[t].kind = "run" THEN NextPhase(tasks[t].phase + 1)
               ELSE PhaseOfStage(tasks[t].stage)
    IN  /\ tasks[t].kind \in {"run", "stage"}
        /\ \/ tasks[t].pc = "between" /\ loop = t
           \/ tasks[t].pc = "sleep" /\ loop = 0
        /\ IF nxt # 0
           THEN BeginPhase(t, nxt) /\ UNCHANGED status
           ELSE /\ status' = "completed"
                /\ response' = NoResponse /\ UNCHANGED <<budget, gen_call>>
                /\ SetTask(t, "done", tasks[t].phase)
                /\ loop' = 0
                /\ UNCHANGED steps
        /\ UNCHANGED <<exists, artefacts, error, brd_data, brd_file, current_stage,
                       stage_history, storeVars, nreq, clock, impact, other, invoke>>

\* ------------------------------------------------------------- handlers
\* Every handler runs when the loop is free and answers one request.
Request ==
    loop = 0 /\ nreq < budget /\ nreq' = nreq + 1 /\ loop' = 0 /\ UNCHANGED budget

CanAddTask == Len(tasks) < MaxTasks

\* The 404 of an unknown job ("Job not found") or of an unknown epic, story
\* or gap fix of a known job.
NotFound(op, jid, arg) ==
    /\ response' = Resp(op, jid, IF JobFound(jid) THEN arg ELSE None, 404, "error", 0, 0)
    /\ UNCHANGED <<jobVars, storeVars, tasks, clock, gen_call, impact, other, invoke>>

\* The job of another client, "j2", as far as its staged workflow goes: pc is
\* the position of its run_stage_generation task ("none" when the job has
\* started none), as for the tasks of the job itself.
OtherJobId == "j2"
NoOtherJob ==
    [exists |-> FALSE, status |-> "pending", error |-> None, steps |-> <<>>,
     current_stage |-> None, stage_history |-> <<>>, epics |-> <<>>,
     user_stories |-> <<>>, pc |-> "none"]

\* Faulty variant: the registry is replaced by one holding the new job only.
create_job_alone(jobs) == NoOtherJob

\* JobManager.create_job, "self.jobs[job_id] = job" under a fresh uuid: the
\* entries of the other jobs stay as they are.
create_job(jobs) == jobs

\* POST /generate: create the job, its steps, and start the pipeline.
generate(cfg) ==
    /\ Request
    /\ ~exists /\ CanAddTask
    /\ exists' = TRUE
    /\ other' = create_job(other)
    /\ artefacts' = cfg
    /\ steps' = add_step(<<>>, ParseStep) \o StageSteps(cfg)
    /\ tasks' = Append(tasks, NewTask("run", None, TRUE))
    /\ response' = Resp("generate", JobId, None, 200, "ok", 0, 0)
    /\ UNCHANGED <<status, error, brd_data, brd_file, current_stage, stage_history,
                   storeVars, clock, gen_call, impact, invoke>>

\* POST /validate-brd: create the job, save and parse the document, store the
\* gap fixes.  outcome: where the handler stops ("ok", or the call that raised).
validate_brd(cfg, outcome, ngaps) ==
    /\ Request
    /\ ~exists
    /\ exists' = TRUE
    /\ other' = create_job(other)
    /\ artefacts' = cfg
    /\ brd_file' = TRUE
    /\ brd_data' = IF outcome = "parse_error" THEN brd_data
                   ELSE [parsed |-> TRUE, chunks |-> DocChunks]
    /\ gap_fixes' = IF outcome = "ok"
                    THEN [i \in 1..ngaps |->
                            [gap_id |-> i, user_action |-> "pending", final_text |-> FALSE]]
                    ELSE gap_fixes
    /\ response' = IF outcome = "ok" THEN Resp("validate_brd", JobId, None, 200, "ok", ngaps, 0)
                   ELSE Resp("validate_brd", JobId, None, 500, "error", 0, 0)
    /\ UNCHANGED <<status, error, steps, current_stage, stage_history, epics,
                   user_stories, functional_tests, gherkin_tests, entities, mermaid,
                   code_skeleton, nextRef, tasks, clock, gen_call, impact, invoke>>

\* POST /proceed-to-generation/{job_id}
proceed_to_generation(jid) ==
    /\ Request
    /\ IF ~JobFound(jid) THEN NotFound("proceed_to_generation", jid, None)
       ELSE IF ~brd_data.parsed
       THEN /\ response' = Resp("proceed_to_generation", jid, None, 400, "error", 0, 0)
            /\ UNCHANGED <<jobVars, storeVars, tasks, clock, gen_call, impact, other, invoke>>
       ELSE /\ steps' = steps \o StageSteps(artefacts)
            /\ IF ~brd_file
               THEN /\ response' = Resp("proceed_to_generation", jid, None, 400, "error", 0, 0)
                    /\ UNCHANGED tasks
               ELSE /\ CanAddTask
                    /\ tasks' = Append(tasks, NewTask("run", None, FALSE))
                    /\ response' = Resp("proceed_to_generation", jid, None, 200,
                                        "generation_started", 0, 0)
            /\ UNCHANGED <<exists, artefacts, status, error, brd_data, brd_file,
                           current_stage, stage_history, storeVars, clock, gen_call, impact, other, invoke>>

\* POST /proceed-to-stage/{job_id}
proceed_to_stage(jid, next_stage) ==
    /\ Request
    /\ IF ~JobFound(jid) THEN NotFound("proceed_to_stage", jid, next_stage)
       ELSE IF ~valid_stage(next_stage)
       THEN /\ response' = Resp("proceed_to_stage", jid, next_stage, 400, "error", 0, 0)
            /\ UNCHANGED <<jobVars, storeVars, tasks, clock, gen_call, impact, other, invoke>>
       ELSE IF stage_already_completed(stage_history, next_stage)
       THEN /\ current_stage' = next_stage
            /\ response' = Resp("proceed_to_stage", jid, next_stage, 200,
                                "already_completed", 0, 0)
            /\ UNCHANGED <<exists, artefacts, status, error, steps, brd_data, brd_file,
                           stage_history, storeVars, tasks, clock, gen_call, impact, other, invoke>>
       ELSE /\ stage_history' = advance_stage(stage_history, current_stage, next_stage)
            /\ current_stage' = next_stage
            /\ IF ~brd_file
               THEN /\ response' = Resp("proceed_to_stage", jid, next_stage, 400, "error", 0, 0)
                    /\ UNCHANGED tasks
               ELSE /\ CanAddTask
                    /\ tasks' = Append(tasks, NewTask("stage", next_stage, FALSE))
                    /\ response' = Resp("proceed_to_stage", jid, next_stage, 200, "started", 0, 0)
            /\ UNCHANGED <<exists, artefacts, status, error, steps, brd_data, brd_file,
                           storeVars, clock, gen_call, impact, other, invoke>>

\* job.results, as GET /status serialises it.
Results ==
    [epics |-> epics, user_stories |-> user_stories,
     functional_tests |-> functional_tests, gherkin_tests |-> gherkin_tests,
     entities |-> entities, mermaid |-> mermaid, code_skeleton |-> code_skeleton,
     gap_fixes |-> gap_fixes]

StatusResponse ==
    [status |-> status, error |-> error, steps |-> steps, results |-> Results,
     artefacts |-> artefacts]

\* Faulty variant: the handler runs in a worker thread, whoever holds the loop.
in_worker_thread == TRUE

\* get_status is a coroutine of the event loop: it runs when no other
\* coroutine holds the loop, and it does not suspend.
on_event_loop == loop = 0

\* GET /status/{job_id}
get_status(jid) ==
    /\ on_event_loop
    /\ nreq < budget /\ nreq' = nreq + 1
    /\ response' = IF ~JobFound(jid)
                   THEN Resp("get_status", jid, None, 404, "error", 0, 0)
                   ELSE [op |-> "get_status", job |-> jid, arg |-> None, code |-> 200,
                         status |-> "ok", n1 |-> 0, n2 |-> 0, body |-> StatusResponse]
    /\ UNCHANGED <<jobVars, storeVars, tasks, loop, budget, clock, gen_call, impact, other, invoke>>

\* The files download_results puts into the archive.
ArchiveFiles ==
    (IF epics # <<>> \/ user_stories # <<>> THEN {"epics_and_stories.json"} ELSE {})
    \cup (IF functional_tests # <<>> THEN {"functional_tests.json"} ELSE {})
    \cup (IF gherkin_tests # <<>> THEN {"gherkin_tests.feature"} ELSE {})
    \cup (IF entities # <<>> THEN {"entities.json"} ELSE {})
    \cup (IF mermaid # 0 THEN {"diagram.mmd"} ELSE {})
    \cup (IF code_skeleton THEN {"code_skeleton"} ELSE {})

\* GET /download/{job_id}
download_results(jid) ==
    /\ Request
    /\ response' = IF ~JobFound(jid)
                   THEN Resp("download_results", jid, None, 404, "error", 0, 0)
                   ELSE IF status # "completed"
                   THEN Resp("download_results", jid, None, 400, "error", 0, 0)
                   ELSE [op |-> "download_results", job |-> jid, arg |-> None,
                         code |-> 200, status |-> "ok", n1 |-> 0, n2 |-> 0,
                         body |-> ArchiveFiles]
    /\ UNCHANGED <<jobVars, storeVars, tasks, clock, gen_call, impact, other, invoke>>

\* ------------------------------------------------------- artifact store
\* Faulty variant: the lookup takes the first story, whatever its id.
any_story(sid) == IF user_stories = <<>> THEN 0 ELSE 1

\* "for s in job.results.user_stories: if s.id == story_id: ... break"
first_story(sid) ==
    LET HasId(x) == x.id = sid
    IN  SelectIdx(user_stories, HasId, 1)

\* Faulty variant: the tests of the deleted stories are kept.
keep_tests(tests, ids) == tests

\* "[t for t in tests if t.story_id not in deleted_story_ids]"
without_stories(tests, ids) == SelectSeq(tests, LAMBDA x : x.story_id \notin ids)

\* DELETE /delete-epic/{job_id}/{epic_id}
delete_epic(jid, eid) ==
    LET deleted_story_ids ==
            SelectSeq(user_stories, LAMBDA x : x.epic_id = eid)
        ids == StoryIdsOf(deleted_story_ids)
    IN  /\ Request
        /\ IF ~JobFound(jid) THEN NotFound("delete_epic", jid, eid)
           ELSE IF \A i \in 1..Len(epics) : epics[i].id # eid
           THEN NotFound("delete_epic", jid, eid)
           ELSE /\ epics' = SelectSeq(epics, LAMBDA x : x.id # eid)
                /\ user_stories' = SelectSeq(user_stories, LAMBDA x : x.epic_id # eid)
                /\ functional_tests' = without_stories(functional_tests, ids)
                /\ gherkin_tests' = without_stories(gherkin_tests, ids)
                /\ response' = Resp("delete_epic", jid, eid, 200, "ok",
                                    Len(deleted_story_ids), 0)
                /\ UNCHANGED <<jobVars, entities, mermaid, code_skeleton, gap_fixes,
                               nextRef, tasks, clock, gen_call, impact, other, invoke>>

Edits == {[title |-> "T1", role |-> "R1", goal |-> "G1", benefit |-> "B1"]}

\* Faulty variant: the edit is stored without flagging the story.
edited_unflagged(story, vals, now) ==
    [story EXCEPT !.title = vals.title, !.role = vals.role, !.goal = vals.goal,
                  !.benefit = vals.benefit, !.edited_at = now]

edited(story, vals, now) ==
    [story EXCEPT !.title = vals.title, !.role = vals.role, !.goal = vals.goal,
                  !.benefit = vals.benefit, !.edited_at = now,
                  !.regeneration_needed = TRUE]

\* Faulty variant: the loop of update_story without its break.
edit_stories_all(stories, sid, vals, now) ==
    [i \in 1..Len(stories) |->
        IF stories[i].id = sid THEN edited(stories[i], vals, now) ELSE stories[i]]

\* The loop of update_story: the first story of that id is edited.
edit_stories(stories, sid, vals, now) ==
    LET HasId(x) == x.id = sid
        i == SelectIdx(stories, HasId, 1)
    IN  IF i = 0 THEN stories ELSE [stories EXCEPT ![i] = edited(stories[i], vals, now)]

\* PUT /update-story/{job_id}/{story_id}
update_story(jid, sid, vals) ==
    /\ Request
    /\ IF ~JobFound(jid) THEN NotFound("update_story", jid, sid)
       ELSE IF first_story(sid) = 0 THEN NotFound("update_story", jid, sid)
       ELSE /\ user_stories' = edit_stories(user_stories, sid, vals, clock + 1)
            /\ clock' = clock + 1
            /\ response' = Resp("update_story", jid, sid, 200, "ok", 0, 0)
            /\ UNCHANGED <<jobVars, epics, functional_tests, gherkin_tests, entities,
                           mermaid, code_skeleton, gap_fixes, nextRef, tasks,
                           gen_call, impact, other, invoke>>

\* POST /update-gap-fix/{job_id}
update_gap_fix(jid, gid, action, text) ==
    LET HasId(x) == x.gap_id = gid
        i == SelectIdx(gap_fixes, HasId, 1)
    IN  /\ Request
        /\ IF ~JobFound(jid) THEN NotFound("update_gap_fix", jid, action)
           ELSE IF i = 0 THEN NotFound("update_gap_fix", jid, action)
           ELSE /\ gap_fixes' = [gap_fixes EXCEPT
                                   ![i].user_action = action,
                                   ![i].final_text = (text \/ gap_fixes[i].final_text)]
                /\ response' = Resp("update_gap_fix", jid, action, 200, "ok", gid, 0)
                /\ UNCHANGED <<jobVars, epics, user_stories, functional_tests,
                               gherkin_tests, entities, mermaid, code_skeleton,
                               nextRef, tasks, clock, gen_call, impact, other, invoke>>

\* What the generator may answer to a call made for the single story sid: up
\* to MaxGen tests for that story, or a test carrying the id of another
\* story of the job, here the last one (story_id is whatever the reply says).
GenIds == <<"n1", "n2", "n3", "n4">>
FocusedOutputs(sid) ==
    LET others == {i \in 1..Len(user_stories) : user_stories[i].id # sid}
        last == CHOOSE i \in others : \A j \in others : j <= i
    IN  {[i \in 1..n |-> NewTest(GenIds[i], sid)] : n \in 0..MaxGen}
        \cup (IF others = {} THEN {} ELSE {<<NewTest(GenIds[1], user_stories[last].id)>>})

IsForeign(out, sid) == \E i \in 1..Len(out) : out[i].story_id # sid

\* "test.regenerated_at = datetime.now()" on every new test.
Stamped(out, now) == [i \in 1..Len(out) |-> [out[i] EXCEPT !.regenerated_at = now]]

\* Faulty variant: the old tests of the story are left in the collection.
keep_old_tests(tests, sid) == tests

\* "remove old tests for this story": the collection is replaced by the list
\* of the tests of the other stories.
remove_old_tests(tests, sid) == SelectSeq(tests, LAMBDA x : x.story_id # sid)

\* The gap fixes _regenerate_tests turns into corrections.
applied_gap_fixes ==
    SelectSeq(gap_fixes, LAMBDA gf : \/ gf.user_action = "accept"
                                     \/ gf.user_action = "edit" /\ gf.final_text)

FocusedCall(kind, story, chunks) ==
    [kind |-> kind, stories |-> <<story.id>>, chunks |-> chunks, gap_fixes |-> <<>>]

\* A task of regenerate_story_tests that has ended: its closure is released.
Ended(task) == [NewTask(task.kind, None, FALSE) EXCEPT !.pc = "done"]

\* How the task ended: "raised" when its except block printed the error,
\* "finished" otherwise.  n1 tells whether the generator answered it with a
\* test of another story.
Outcome(task, how, foreign) ==
    Resp("regen_tests_task", JobId, task.story.id, 0, how, IF foreign THEN 1 ELSE 0, 0)

\* POST /regenerate-story-tests/{job_id}/{story_id}: the closure of the
\* background task holds the first story of that id.
regenerate_story_tests(jid, sid) ==
    /\ Request
    /\ IF ~JobFound(jid) THEN NotFound("regenerate_story_tests", jid, sid)
       ELSE IF first_story(sid) = 0 THEN NotFound("regenerate_story_tests", jid, sid)
       ELSE /\ CanAddTask
            /\ tasks' = Append(tasks, [NewTask("regen_tests", None, FALSE) EXCEPT
                                         !.story = user_stories[first_story(sid)]])
            /\ response' = Resp("regenerate_story_tests", jid, sid, 200, "ok", 0, 0)
            /\ UNCHANGED <<jobVars, storeVars, clock, gen_call, impact, other, invoke>>

\* Faulty variant: the task works on a copy of the story made when the
\* request was handled.
captured_story(t) == tasks[t].story

\* The UserStory object a task holds, as it is now: handlers reach the
\* object through job.results.user_stories only, so an object that left the
\* list is as the task saw it last.
HeldStory(t) ==
    LET IsHeld(x) == x.ref = tasks[t].story.ref
        i == SelectIdx(user_stories, IsHeld, 1)
    IN  IF i = 0 THEN tasks[t].story ELSE user_stories[i]

\* _regenerate_tests starts: it collects the chunks and the gap fixes and
\* calls the functional-test generator.  Reading gf.gap_type of an applied
\* gap fix raises AttributeError (GapFix has no such field), which the
\* except block swallows.
RegenStart(t) ==
    /\ loop = 0
    /\ tasks[t].kind = "regen_tests" /\ tasks[t].pc = "queued"
    /\ IF applied_gap_fixes # <<>>
       THEN /\ tasks' = [tasks EXCEPT ![t] = Ended(tasks[t])]
            /\ response' = Outcome(tasks[t], "raised", FALSE)
            /\ loop' = 0
            /\ UNCHANGED gen_call
       ELSE /\ tasks' = [tasks EXCEPT ![t].pc = "mid", ![t].phase = 3,
                                      ![t].pre_f = functional_tests,
                                      ![t].pre_g = gherkin_tests]
            /\ response' = NoResponse
            /\ loop' = t
            /\ gen_call' = FocusedCall("functional_tests", HeldStory(t),
                                       brd_chunks(chunk_ids(<<HeldStory(t)>>)))
    /\ UNCHANGED <<jobVars, storeVars, nreq, budget, clock, impact, other, invoke>>

\* The functional-test call returns and the old functional tests of the
\* story are removed.
RegenFunctionalReturns(t) ==
    /\ loop = t
    /\ tasks[t].kind = "regen_tests" /\ tasks[t].pc = "mid" /\ tasks[t].phase = 3
    /\ functional_tests' = remove_old_tests(functional_tests, tasks[t].story.id)
    /\ tasks' = [tasks EXCEPT ![t].pc = "swap"]
    /\ response' = NoResponse
    /\ UNCHANGED <<jobVars, epics, user_stories, gherkin_tests, entities, mermaid,
                   code_skeleton, gap_fixes, nextRef, loop, nreq, budget, clock,
                   gen_call, impact, other, invoke>>

\* The tests of the reply (out) are appended with their regeneration
\* timestamp, then the Gherkin generator is called.
RegenFunctionalStored(t, out) ==
    LET sid == tasks[t].story.id
    IN  /\ loop = t
        /\ tasks[t].kind = "regen_tests" /\ tasks[t].pc = "swap" /\ tasks[t].phase = 3
        /\ out \in FocusedOutputs(sid)
        /\ functional_tests' = functional_tests \o Stamped(out, clock + 1)
        /\ clock' = clock + 1
        /\ tasks' = [tasks EXCEPT ![t].pc = "mid", ![t].phase = 4,
                                  ![t].stamp = clock + 1,
                                  ![t].foreign = IsForeign(out, sid)]
        /\ gen_call' = FocusedCall("gherkin_tests", HeldStory(t), <<>>)
        /\ response' = NoResponse
        /\ UNCHANGED <<jobVars, epics, user_stories, gherkin_tests, entities, mermaid,
                       code_skeleton, gap_fixes, nextRef, loop, nreq, budget, impact, other, invoke>>

\* The Gherkin call returns and the old scenarios of the story are removed.
RegenGherkinReturns(t) ==
    /\ loop = t
    /\ tasks[t].kind = "regen_tests" /\ tasks[t].pc = "mid" /\ tasks[t].phase = 4
    /\ gherkin_tests' = remove_old_tests(gherkin_tests, tasks[t].story.id)
    /\ tasks' = [tasks EXCEPT ![t].pc = "swap"]
    /\ response' = NoResponse
    /\ UNCHANGED <<jobVars, epics, user_stories, functional_tests, entities, mermaid,
                   code_skeleton, gap_fixes, nextRef, loop, nreq, budget, clock,
                   gen_call, impact, other, invoke>>

\* Faulty variant: the flag of every story is cleared.
flag_all_done(stories, ref) ==
    [i \in 1..Len(stories) |-> [stories[i] EXCEPT !.regeneration_needed = FALSE]]

\* "story.regeneration_needed = False" on the UserStory object of the closure.
regeneration_done(stories, ref) ==
    [i \in 1..Len(stories) |->
        IF stories[i].ref = ref THEN [stories[i] EXCEPT !.regeneration_needed = FALSE]
        ELSE stories[i]]

\* The scenarios of the reply (out) are appended with their regeneration
\* timestamp, the story's regeneration_needed flag is cleared and the task
\* ends.
RegenGherkinStored(t, out) ==
    LET sid == tasks[t].story.id
    IN  /\ loop = t
        /\ tasks[t].kind = "regen_tests" /\ tasks[t].pc = "swap" /\ tasks[t].phase = 4
        /\ out \in FocusedOutputs(sid)
        /\ gherkin_tests' = gherkin_tests \o Stamped(out, clock + 1)
        /\ clock' = clock + 1
        /\ user_stories' = regeneration_done(user_stories, tasks[t].story.ref)
        /\ tasks' = [tasks EXCEPT ![t] = Ended(tasks[t])]
        /\ response' = Outcome(tasks[t], "finished",
                               tasks[t].foreign \/ IsForeign(out, sid))
        /\ loop' = 0
        /\ UNCHANGED <<jobVars, epics, functional_tests, entities, mermaid,
                       code_skeleton, gap_fixes, nextRef, nreq, budget, gen_call, impact, other, invoke>>

\* A generator call of _regenerate_tests raises: the except block prints
\* the error and the task ends.
RegenFails(t) ==
    /\ loop = t
    /\ tasks[t].kind = "regen_tests" /\ tasks[t].pc = "mid"
    /\ tasks' = [tasks EXCEPT ![t] = Ended(tasks[t])]
    /\ response' = Outcome(tasks[t], "raised", tasks[t].foreign)
    /\ loop' = 0
    /\ UNCHANGED <<jobVars, storeVars, nreq, budget, clock, gen_call, impact, other, invoke>>

\* POST /stories/{story_id}/more-tests.  outcome "raise": the generator call
\* raises.  The asyncio.sleep(3) before the return only delays the response.
generate_more_tests(jid, sid, out, outcome) ==
    LET i == first_story(sid)
        ids == chunk_ids(<<user_stories[i]>>)
        chunks == brd_chunks(ids)
        Bad == /\ response' = Resp("generate_more_tests", jid, sid, 400, "error", 0, 0)
               /\ UNCHANGED <<jobVars, storeVars, tasks, clock, gen_call, impact, other, invoke>>
    IN  /\ Request
        /\ IF ~JobFound(jid) THEN NotFound("generate_more_tests", jid, sid)
           ELSE IF i = 0 THEN NotFound("generate_more_tests", jid, sid)
           ELSE IF ids = {} THEN Bad
           ELSE IF chunks = <<>> THEN Bad
           ELSE /\ gen_call' = FocusedCall("functional_tests", user_stories[i], chunks)
                /\ IF outcome = "raise"
                   THEN /\ response' = Resp("generate_more_tests", jid, sid, 500,
                                            "error", 0, 0)
                        /\ UNCHANGED functional_tests
                   ELSE /\ out \in FocusedOutputs(sid)
                        /\ functional_tests' = functional_tests \o out
                        /\ response' = Resp("generate_more_tests", jid, sid, 200, "ok",
                                            Len(out), 0)
                /\ UNCHANGED <<jobVars, epics, user_stories, gherkin_tests, entities,
                               mermaid, code_skeleton, gap_fixes, nextRef, tasks, clock,
                               impact, other, invoke>>

\* PUT /update-epic/{job_id}/{epic_id}: the first epic of that id is edited.
update_epic(jid, eid) ==
    LET HasId(x) == x.id = eid
        i == SelectIdx(epics, HasId, 1)
    IN  /\ Request
        /\ IF ~JobFound(jid) THEN NotFound("update_epic", jid, eid)
           ELSE IF i = 0 THEN NotFound("update_epic", jid, eid)
           ELSE /\ epics' = [epics EXCEPT ![i].name = "N1", ![i].description = "D1",
                                          ![i].edited_at = clock + 1]
                /\ clock' = clock + 1
                /\ response' = Resp("update_epic", jid, eid, 200, "ok", 0, 0)
                /\ UNCHANGED <<jobVars, user_stories, functional_tests, gherkin_tests,
                               entities, mermaid, code_skeleton, gap_fixes, nextRef,
                               tasks, gen_call, impact, other, invoke>>

\* The criteria payloads: a string that is not JSON, or a JSON array of n
\* texts.
CriteriaInputs ==
    {[json |-> FALSE, texts |-> <<>>],
     [json |-> TRUE, texts |-> <<>>],
     [json |-> TRUE, texts |-> <<"A1">>]}
AcIds == <<"ac_1", "ac_2">>

\* PUT /update-acceptance-criteria/{job_id}/{story_id}: the payload is parsed
\* before the story is looked up; the criteria of the first story of that
\* id are replaced.
update_acceptance_criteria(jid, sid, criteria) ==
    LET i == first_story(sid)
    IN  /\ Request
        /\ IF ~JobFound(jid) THEN NotFound("update_acceptance_criteria", jid, sid)
           ELSE IF ~criteria.json
           THEN /\ response' = Resp("update_acceptance_criteria", jid, sid, 400,
                                    "error", 0, 0)
                /\ UNCHANGED <<jobVars, storeVars, tasks, clock, gen_call, impact, other, invoke>>
           ELSE IF i = 0 THEN NotFound("update_acceptance_criteria", jid, sid)
           ELSE /\ user_stories' =
                      [user_stories EXCEPT
                         ![i].acceptance_criteria =
                             [k \in 1..Len(criteria.texts) |->
                                 [id |-> AcIds[k], text |-> criteria.texts[k],
                                  source_chunks |-> {}]],
                         ![i].edited_at = clock + 1,
                         ![i].regeneration_needed = TRUE]
                /\ clock' = clock + 1
                /\ response' = Resp("update_acceptance_criteria", jid, sid, 200, "ok",
                                    Len(criteria.texts), 0)
                /\ UNCHANGED <<jobVars, epics, functional_tests, gherkin_tests, entities,
                               mermaid, code_skeleton, gap_fixes, nextRef, tasks,
                               gen_call, impact, other, invoke>>

\* Faulty variant: every test of the job is counted.
count_all_tests(tests, sid) == Len(tests)

\* "len([t for t in tests if t.story_id == story_id])"
count_tests(tests, sid) == Len(SelectSeq(tests, LAMBDA x : x.story_id = sid))

\* DELETE /delete-story/{job_id}/{story_id}
delete_story(jid, sid) ==
    /\ Request
    /\ IF ~JobFound(jid) THEN NotFound("delete_story", jid, sid)
       ELSE IF first_story(sid) = 0 THEN NotFound("delete_story", jid, sid)
       ELSE /\ user_stories' = SelectSeq(user_stories, LAMBDA x : x.id # sid)
            /\ functional_tests' = without_stories(functional_tests, {sid})
            /\ gherkin_tests' = without_stories(gherkin_tests, {sid})
            /\ response' = Resp("delete_story", jid, sid, 200, "ok",
                                count_tests(functional_tests, sid),
                                count_tests(gherkin_tests, sid))
            /\ UNCHANGED <<jobVars, epics, entities, mermaid, code_skeleton, gap_fixes,
                           nextRef, tasks, clock, gen_call, impact, other, invoke>>

TestTypes == {"functional", "gherkin", "bogus"}

\* DELETE /delete-test/{job_id}/{test_id}
delete_test(jid, tid, test_type) ==
    LET HasId(x) == x.id = tid
        Others(tests) == SelectSeq(tests, LAMBDA x : x.id # tid)
        Deleted == Resp("delete_test", jid, tid, 200, "ok", 0, 0)
    IN  /\ Request
        /\ IF ~JobFound(jid) THEN NotFound("delete_test", jid, tid)
           ELSE IF test_type = "functional" /\ SelectIdx(functional_tests, HasId, 1) # 0
           THEN /\ functional_tests' = Others(functional_tests)
                /\ response' = Deleted
                /\ UNCHANGED <<jobVars, epics, user_stories, gherkin_tests, entities,
                               mermaid, code_skeleton, gap_fixes, nextRef, tasks, clock,
                               gen_call, impact, other, invoke>>
           ELSE IF test_type = "gherkin" /\ SelectIdx(gherkin_tests, HasId, 1) # 0
           THEN /\ gherkin_tests' = Others(gherkin_tests)
                /\ response' = Deleted
                /\ UNCHANGED <<jobVars, epics, user_stories, functional_tests, entities,
                               mermaid, code_skeleton, gap_fixes, nextRef, tasks, clock,
                               gen_call, impact, other, invoke>>
           ELSE IF test_type \notin {"functional", "gherkin"}
           THEN /\ response' = Resp("delete_test", jid, tid, 400, "error", 0, 0)
                /\ UNCHANGED <<jobVars, storeVars, tasks, clock, gen_call, impact, other, invoke>>
           ELSE NotFound("delete_test", jid, tid)

\* POST /regenerate-story-entities/{job_id}/{story_id}: the background task
\* keeps the story id of the request.
regenerate_story_entities(jid, sid) ==
    /\ Request
    /\ IF ~JobFound(jid) THEN NotFound("regenerate_story_entities", jid, sid)
       ELSE IF first_story(sid) = 0 THEN NotFound("regenerate_story_entities", jid, sid)
       ELSE /\ CanAddTask
            /\ tasks' = Append(tasks, [NewTask("regen_entities", None, FALSE) EXCEPT
                                         !.story = user_stories[first_story(sid)]])
            /\ response' = Resp("regenerate_story_entities", jid, sid, 200, "ok", 0, 0)
            /\ UNCHANGED <<jobVars, storeVars, clock, gen_call, impact, other, invoke>>

\* "[s for s in job.results.user_stories if s.regeneration_needed or
\* s.id == story_id]"
stories_for_regen(sid) ==
    SelectSeq(user_stories, LAMBDA x : x.regeneration_needed \/ x.id = sid)

EntityOutputs == {<<>>, <<NewEntity("m1")>>}

\* _regenerate_entities starts: it collects the gap fixes (which raises for
\* an applied gap fix, as in _regenerate_tests) and calls the data-model
\* generator with the stories to regenerate.
EntitiesStart(t) ==
    LET sid == tasks[t].story.id
    IN  /\ loop = 0
        /\ tasks[t].kind = "regen_entities" /\ tasks[t].pc = "queued"
        /\ IF applied_gap_fixes # <<>>
           THEN /\ tasks' = [tasks EXCEPT ![t] = Ended(tasks[t])]
                /\ response' = Resp("regen_entities_task", JobId, sid, 0, "raised", 0, 0)
                /\ loop' = 0
                /\ UNCHANGED gen_call
           ELSE /\ tasks' = [tasks EXCEPT ![t].pc = "mid", ![t].phase = 2]
                /\ response' = NoResponse
                /\ loop' = t
                /\ gen_call' = [kind |-> "data_model",
                                stories |-> [i \in 1..Len(stories_for_regen(sid)) |->
                                                stories_for_regen(sid)[i].id],
                                chunks |-> <<>>, gap_fixes |-> <<>>]
        /\ UNCHANGED <<jobVars, storeVars, nreq, budget, clock, impact, other, invoke>>

\* The data-model call returns: the entities derived from the affected
\* stories are removed, the new ones are appended with the affected story
\* ids and the diagram is replaced.
EntitiesReturn(t, out) ==
    LET sid == tasks[t].story.id
        affected == StoryIdsOf(stories_for_regen(sid))
    IN  /\ loop = t
        /\ tasks[t].kind = "regen_entities" /\ tasks[t].pc = "mid"
        /\ out \in EntityOutputs
        /\ entities' = SelectSeq(entities, LAMBDA e : e.source_story_ids \cap affected = {})
                        \o [i \in 1..Len(out) |->
                               [out[i] EXCEPT !.regenerated_at = clock + 1,
                                               !.source_story_ids = affected]]
        /\ mermaid' = clock + 1
        /\ clock' = clock + 1
        /\ tasks' = [tasks EXCEPT ![t] = Ended(tasks[t])]
        /\ response' = Resp("regen_entities_task", JobId, sid, 0, "finished", 0, 0)
        /\ loop' = 0
        /\ UNCHANGED <<jobVars, epics, user_stories, functional_tests, gherkin_tests,
                       code_skeleton, gap_fixes, nextRef, nreq, budget, gen_call, impact, other, invoke>>

\* The data-model call raises: the except block prints the error.
EntitiesFails(t) ==
    /\ loop = t
    /\ tasks[t].kind = "regen_entities" /\ tasks[t].pc = "mid"
    /\ tasks' = [tasks EXCEPT ![t] = Ended(tasks[t])]
    /\ response' = Resp("regen_entities_task", JobId, tasks[t].story.id, 0, "raised", 0, 0)
    /\ loop' = 0
    /\ UNCHANGED <<jobVars, storeVars, nreq, budget, clock, gen_call, impact, other, invoke>>

\* ------------------------------------------------------- generate more
\* POST /generate-more/{job_id}: stage is request.stage, context_ids the
\* identifiers of request.context_ids (empty when the request has none).
generate_more(jid, stage, context_ids) ==
    /\ Request
    /\ IF ~JobFound(jid) THEN NotFound("generate_more", jid, stage)
       ELSE IF ~brd_file
       THEN /\ response' = Resp("generate_more", jid, stage, 400, "error", 0, 0)
            /\ UNCHANGED <<jobVars, storeVars, tasks, clock, gen_call, impact, other, invoke>>
       ELSE /\ CanAddTask
            /\ tasks' = Append(tasks, [NewTask("more", stage, FALSE) EXCEPT
                                         !.context = context_ids])
            /\ response' = Resp("generate_more", jid, stage, 200, "generating", 0, 0)
            /\ UNCHANGED <<jobVars, storeVars, clock, gen_call, impact, other, invoke>>

\* Faulty variant: the context_ids of the request are ignored.
every_story(context_ids) == user_stories

\* "stories_to_use = job.results.user_stories; if request.context_ids:
\* stories_to_use = [s for s in ... if s.id in request.context_ids]"
stories_to_use(context_ids) ==
    IF context_ids = {} THEN user_stories
    ELSE SelectSeq(user_stories, LAMBDA x : x.id \in context_ids)

MoreOutcome(task, how, n) == Resp("generate_more_task", JobId, task.stage, 0, how, n, 0)

\* What the generator may answer to the call of run_generate_more: up to two
\* tests for the first story it was given.
MoreOutputs(stories) ==
    IF stories = <<>> THEN {<<>>}
    ELSE {[i \in 1..n |-> NewTest(GenIds[i], stories[1].id)] : n \in 0..2}

\* run_generate_more starts.  It collects the gap fixes, which raises for an
\* applied gap fix as in _regenerate_tests.  Its EPICS and GHERKIN_TESTS
\* branches call the client with more positional arguments than the method
\* takes, which raises TypeError before any request is sent; it has no
\* branch for the other stages.  Its FUNCTIONAL_TESTS branch calls the
\* functional-test generator with the stories to use and their chunks.
MoreStart(t) ==
    LET stories == stories_to_use(tasks[t].context)
    IN  /\ loop = 0
        /\ tasks[t].kind = "more" /\ tasks[t].pc = "queued"
        /\ IF applied_gap_fixes # <<>> \/ tasks[t].stage \in {"EPICS", "GHERKIN_TESTS"}
           THEN /\ tasks' = [tasks EXCEPT ![t] = Ended(tasks[t])]
                /\ response' = MoreOutcome(tasks[t], "raised", 0)
                /\ loop' = 0
                /\ UNCHANGED gen_call
           ELSE IF tasks[t].stage # "FUNCTIONAL_TESTS"
           THEN /\ tasks' = [tasks EXCEPT ![t] = Ended(tasks[t])]
                /\ response' = MoreOutcome(tasks[t], "finished", 0)
                /\ loop' = 0
                /\ UNCHANGED gen_call
           ELSE /\ tasks' = [tasks EXCEPT ![t].pc = "mid", ![t].phase = 3]
                /\ response' = NoResponse
                /\ loop' = t
                /\ gen_call' = [kind |-> "functional_tests",
                                stories |-> [i \in 1..Len(stories) |-> stories[i].id],
                                chunks |-> brd_chunks(chunk_ids(stories)),
                                gap_fixes |-> <<>>]
        /\ UNCHANGED <<jobVars, storeVars, nreq, budget, clock, impact, other, invoke>>

\* The call returns and the tests of the reply are appended one by one; when
\* the k-th entry of the reply is not a valid test the task ends in its
\* except block with the entries before it appended.
MoreReturns(t, out, valid) ==
    /\ loop = t
    /\ tasks[t].kind = "more" /\ tasks[t].pc = "mid"
    /\ out \in MoreOutputs(stories_to_use(tasks[t].context))
    /\ valid \in 0..Len(out)
    /\ functional_tests' = functional_tests \o SubSeq(out, 1, valid)
    /\ tasks' = [tasks EXCEPT ![t] = Ended(tasks[t])]
    /\ response' = MoreOutcome(tasks[t], IF valid = Len(out) THEN "finished" ELSE "raised",
                               valid)
    /\ loop' = 0
    /\ UNCHANGED <<jobVars, epics, user_stories, gherkin_tests, entities, mermaid,
                   code_skeleton, gap_fixes, nextRef, nreq, budget, clock, gen_call,
                   impact, other, invoke>>

\* The call raises: the except block logs the error.
MoreFails(t) ==
    /\ loop = t
    /\ tasks[t].kind = "more" /\ tasks[t].pc = "mid"
    /\ tasks' = [tasks EXCEPT ![t] = Ended(tasks[t])]
    /\ response' = MoreOutcome(tasks[t], "raised", 0)
    /\ loop' = 0
    /\ UNCHANGED <<jobVars, storeVars, nreq, budget, clock, gen_call, impact, other, invoke>>

MediumTests == 5
MediumEntities == 3
HighTests == 10
HighEntities == 5

\* Faulty variant: the entity comparison of the first test is inverted.
risk_level_inverted(tests, ents) ==
    LET first == IF tests > MediumTests \/ ents < MediumEntities THEN "medium" ELSE "low"
    IN  IF tests > HighTests \/ ents > HighEntities THEN "high" ELSE first

\* The risk level of analyze_cascade_impact: "low", overwritten by the two
\* tests in turn.
risk_level(tests, ents) ==
    LET first == IF tests > MediumTests \/ ents > MediumEntities THEN "medium" ELSE "low"
    IN  IF tests > HighTests \/ ents > HighEntities THEN "high" ELSE first

DependencyImpact(tests, ents) ==
    [affected_tests |-> tests, affected_entities |-> ents,
     estimated_time_seconds |-> tests * 10 + ents * 15,
     risk_level |-> risk_level(tests, ents)]

\* Faulty variant: every entity that names a story is counted.
count_derived_entities(ents, sid) ==
    Len(SelectSeq(ents, LAMBDA x : x.source_story_ids # {}))

\* "len([e for e in entities if e.source_story_ids and story_id in
\* e.source_story_ids])"
count_entities(ents, sid) == Len(SelectSeq(ents, LAMBDA x : sid \in x.source_story_ids))

\* GET /cascade-analysis/{job_id}/{story_id}
analyze_cascade_impact(jid, sid) ==
    LET nf == Len(SelectSeq(functional_tests, LAMBDA x : x.story_id = sid))
        ng == Len(SelectSeq(gherkin_tests, LAMBDA x : x.story_id = sid))
        ne == count_entities(entities, sid)
    IN  /\ Request
        /\ IF ~JobFound(jid) THEN NotFound("analyze_cascade_impact", jid, sid)
           ELSE IF first_story(sid) = 0 THEN NotFound("analyze_cascade_impact", jid, sid)
           ELSE /\ impact' = Append(impact, DependencyImpact(nf + ng, ne))
                /\ response' = Resp("analyze_cascade_impact", jid, sid, 200, "ok",
                                    nf + ng, ne)
                /\ UNCHANGED <<jobVars, storeVars, tasks, clock, gen_call, other, invoke>>

\* ------------------------------------------------------- the other job
\* The same handlers and the same task, for the job "j2" of another client.
\* They share the event loop with those of the job "j1": OtherTask is the
\* value of loop while the task of "j2" holds it.
OtherTask == MaxTasks + 1

\* POST /validate-brd has created "j2", saved and parsed its document.
ValidatedOtherJob == [NoOtherJob EXCEPT !.exists = TRUE]

\* POST /proceed-to-stage/j2, sent while no generation of "j2" is in progress.
other_proceed_to_stage(next_stage) ==
    /\ Request
    /\ other.exists /\ other.pc \in {"none", "done"}
    /\ valid_stage(next_stage)
    /\ IF stage_already_completed(other.stage_history, next_stage)
       THEN /\ other' = [other EXCEPT !.current_stage = next_stage]
            /\ response' = Resp("proceed_to_stage", OtherJobId, next_stage, 200,
                                "already_completed", 0, 0)
       ELSE /\ other' = [other EXCEPT
                            !.stage_history = advance_stage(@, other.current_stage,
                                                            next_stage),
                            !.current_stage = next_stage,
                            !.pc = "queued"]
            /\ response' = Resp("proceed_to_stage", OtherJobId, next_stage, 200,
                                "started", 0, 0)
    /\ UNCHANGED <<jobVars, storeVars, tasks, clock, gen_call, impact, invoke>>

\* run_stage_generation of "j2" starts: the document is parsed already, the
\* generator call of the stage begins.
OtherTaskStart ==
    /\ loop = 0
    /\ other.pc = "queued"
    /\ other' = [other EXCEPT
                    !.steps = update_step(@, PhaseStep[1], "running", None),
                    !.pc = "mid"]
    /\ loop' = OtherTask
    /\ response' = NoResponse
    /\ UNCHANGED <<jobVars, storeVars, tasks, nreq, budget, clock, gen_call, impact, invoke>>

\* The generator call returns: the epics and stories are stored, the stage
\* is completed.
OtherTaskSucceeds(out) ==
    /\ loop = OtherTask
    /\ other.pc = "mid"
    /\ out \in PipelineOutputs(1)
    /\ other' = [other EXCEPT
                    !.epics = @ \o out.epics,
                    !.user_stories = @ \o out.stories,
                    !.steps = StepsCompleted(@, 1),
                    !.stage_history = complete_current_stage(@, other.current_stage),
                    !.pc = "done"]
    /\ loop' = 0
    /\ response' = NoResponse
    /\ UNCHANGED <<jobVars, storeVars, tasks, nreq, budget, clock, gen_call, impact, invoke>>

\* The generator call raises or its reply cannot be parsed to the end.
OtherTaskFails(part) ==
    /\ loop = OtherTask
    /\ other.pc = "mid"
    /\ part \in PartialOutputs(1)
    /\ other' = [other EXCEPT
                    !.epics = kept_on_failure(@, part.epics),
                    !.steps = mark_step_failed(@, PhaseStep[1]),
                    !.status = "failed",
                    !.error = PhaseStep[1],
                    !.pc = "done"]
    /\ loop' = 0
    /\ response' = NoResponse
    /\ UNCHANGED <<jobVars, storeVars, tasks, nreq, budget, clock, gen_call, impact, invoke>>

\* ------------------------------------------------------- _invoke_claude
\* "self.max_retries = 5", "self.base_delay = 2"
max_retries == 5
base_delay == 2

\* The system_prompt argument: the default of the parameter, or the text a
\* generate_* method passes.
SystemPrompts == {"", "Output only valid JSON"}

\* The text of a reply of the model.
Contents == {"{\"epics\": []}", "null", "Here are the epics:"}

\* json.loads(content): the value of a JSON text, JSONDecodeError for any
\* other text.
json_loads(content) ==
    CASE content = "{\"epics\": []}" -> "dict"
      [] content = "null" -> None
      [] OTHER -> "JSONDecodeError"

\* What one pass through the try block meets: a reply with a text, a
\* ClientError of invoke_model with its error code, or another exception
\* (no connection, a reply body without content).
Reply(kind, code, content) == [kind |-> kind, code |-> code, content |-> content]
Replies ==
    {Reply("text", None, c) : c \in Contents}
    \cup {Reply("ClientError", code, None) :
             code \in {"ThrottlingException", "AccessDeniedException"}}
    \cup {Reply("Exception", None, None)}
NoReply == Reply(None, None, None)

\* No call of _invoke_claude has been made.
NoInvoke ==
    [pc |-> "idle", system |-> FALSE, attempt |-> 0, last_error |-> None,
     reply |-> NoReply, result |-> None, raised |-> None, tries |-> 0,
     slept |-> 0, calls |-> 0]

\* A generate_* method calls _invoke_claude(prompt, system_prompt): the
\* request body has a system entry when system_prompt is not empty, and the
\* for loop starts with attempt 0.
InvokeStart(system_prompt) ==
    /\ invoke.pc \in {"idle", "returned", "raised"}
    /\ invoke.calls < MaxInvocations
    /\ invoke' = [NoInvoke EXCEPT !.pc = "try", !.system = (system_prompt # ""),
                                  !.calls = invoke.calls + 1]
    /\ UNCHANGED <<jobVars, storeVars, tasks, loop, response, nreq, budget, clock,
                   gen_call, impact, other>>

\* "delay = self.base_delay * (2 ** attempt)"
delay(attempt) == base_delay * 2 ^ attempt

\* Faulty variant: every ClientError is retried.
retry_client_error(code, attempt) == attempt < max_retries

\* "error_code == 'ThrottlingException' and attempt < self.max_retries"
retry_throttled(code, attempt) ==
    code = "ThrottlingException" /\ attempt < max_retries

\* "time.sleep(delay); last_error = e; continue": the next pass of the for
\* loop, or, when range(max_retries + 1) is used up, the statements after
\* the loop, which raise if last_error is set and return nothing otherwise.
continue(inv, e) ==
    LET slept == [inv EXCEPT !.slept = @ + delay(inv.attempt), !.last_error = e]
    IN  IF inv.attempt + 1 <= max_retries
        THEN [slept EXCEPT !.attempt = @ + 1]
        ELSE IF e # None
        THEN [slept EXCEPT !.pc = "raised", !.raised = "RuntimeError"]
        ELSE [slept EXCEPT !.pc = "fell_through"]

\* One pass of the for loop of _invoke_claude with the reply it gets.
InvokeAttempt(reply) ==
    LET inv == [invoke EXCEPT !.reply = reply, !.tries = @ + 1]
    IN  /\ invoke.pc = "try"
        /\ reply \in Replies
        /\ invoke' =
             CASE reply.kind = "text" /\ json_loads(reply.content) # "JSONDecodeError" ->
                    [inv EXCEPT !.pc = "returned",
                                !.result = json_loads(reply.content)]
               [] reply.kind = "text" /\ json_loads(reply.content) = "JSONDecodeError" ->
                    IF inv.attempt < max_retries
                    THEN continue(inv, "JSONDecodeError")
                    ELSE [inv EXCEPT !.pc = "raised", !.raised = "ValueError"]
               [] reply.kind = "ClientError" ->
                    IF retry_throttled(reply.code, inv.attempt)
                    THEN continue(inv, "ClientError")
                    ELSE [inv EXCEPT !.pc = "raised", !.raised = "RuntimeError"]
               [] reply.kind = "Exception" ->
                    [inv EXCEPT !.pc = "raised", !.raised = "RuntimeError"]
        /\ UNCHANGED <<jobVars, storeVars, tasks, loop, response, nreq, budget, clock,
                       gen_call, impact, other>>

\* -------------------------------------------------------- specification

\* No job yet: job_manager.jobs is empty.
NoJob ==
    /\ exists = FALSE
    /\ artefacts = AllOn
    /\ status = "pending"
    /\ error = None
    /\ steps = <<>>
    /\ brd_data = [parsed |-> FALSE, chunks |-> <<>>]
    /\ brd_file = FALSE
    /\ current_stage = None
    /\ stage_history = <<>>
    /\ epics = <<>>
    /\ user_stories = <<>>
    /\ functional_tests = <<>>
    /\ gherkin_tests = <<>>
    /\ entities = <<>>
    /\ mermaid = 0
    /\ code_skeleton = FALSE
    /\ gap_fixes = <<>>
    /\ nextRef = 1
    /\ tasks = <<>>
    /\ loop = 0
    /\ response = NoResponse
    /\ nreq = 0
    /\ clock = 0
    /\ gen_call = NoCall
    /\ impact = <<>>

Init == NoJob /\ budget = MaxRequests /\ other = NoOtherJob /\ invoke = NoInvoke

Next ==
    \/ \E cfg \in Configs : generate(cfg)
    \/ \E cfg \in Configs, o \in {"ok", "parse_error", "validation_error"} :
           validate_brd(cfg, o, 0)
    \/ \E jid \in JobIds : proceed_to_generation(jid)
    \/ \E jid \in JobIds, st \in StageInputs : proceed_to_stage(jid, st)
    \/ \E t \in TaskIds : RunStart(t)
    \/ \E t \in TaskIds : StageTaskStart(t)
    \/ \E t \in TaskIds : \E out \in PipelineOutputs(tasks[t].phase) : PhaseSucceeds(t, out)
    \/ \E t \in TaskIds : \E part \in PartialOutputs(tasks[t].phase) : PhaseFails(t, part)
    \/ \E t \in TaskIds : Resume(t)

Spec == Init /\ [][Next]_vars

\* The staged workflow alone: validate_brd, then proceed_to_stage requests.
InitStaged == NoJob /\ budget = MaxStagedRequests /\ other = NoOtherJob /\ invoke = NoInvoke

NextStaged ==
    \/ \E cfg \in Configs, o \in {"ok", "parse_error", "validation_error"} :
           validate_brd(cfg, o, 0)
    \/ \E jid \in JobIds, st \in StageInputs : proceed_to_stage(jid, st)
    \/ \E t \in TaskIds : StageTaskStart(t)
    \/ \E t \in TaskIds : \E out \in PipelineOutputs(tasks[t].phase) : PhaseSucceeds(t, out)
    \/ \E t \in TaskIds : \E part \in PartialOutputs(tasks[t].phase) : PhaseFails(t, part)
    \/ \E t \in TaskIds : Resume(t)

SpecStaged == InitStaged /\ [][NextStaged]_vars

\* The staged workflow of a validated job with one or two enabled stages,
\* driven to its end: the server starts a task whose turn has come and a
\* call in progress returns or raises.
OnlyEpics == [NoTests EXCEPT !.data_model = FALSE, !.code_skeleton = FALSE]
EpicsAndModel == [NoTests EXCEPT !.code_skeleton = FALSE]
DriveConfigs == {OnlyEpics, EpicsAndModel}

InitDrive ==
    /\ exists = TRUE
    /\ artefacts \in DriveConfigs
    /\ status = "pending"
    /\ error = None
    /\ steps = <<>>
    /\ brd_data = [parsed |-> TRUE, chunks |-> DocChunks]
    /\ brd_file = TRUE
    /\ current_stage = None
    /\ stage_history = <<>>
    /\ epics = <<>>
    /\ user_stories = <<>>
    /\ functional_tests = <<>>
    /\ gherkin_tests = <<>>
    /\ entities = <<>>
    /\ mermaid = 0
    /\ code_skeleton = FALSE
    /\ gap_fixes = <<>>
    /\ nextRef = 1
    /\ tasks = <<>>
    /\ loop = 0
    /\ response = NoResponse
    /\ nreq = 0
    /\ budget = MaxDriveRequests
    /\ other = NoOtherJob /\ invoke = NoInvoke
    /\ clock = 0
    /\ gen_call = NoCall
    /\ impact = <<>>

DriveTaskStep ==
    \/ \E t \in TaskIds : StageTaskStart(t)
    \/ \E t \in TaskIds : \E out \in PipelineOutputs(tasks[t].phase) : PhaseSucceeds(t, out)
    \/ \E t \in TaskIds : \E part \in PartialOutputs(tasks[t].phase) : PhaseFails(t, part)

NextDrive ==
    \/ \E jid \in JobIds, st \in StageInputs : proceed_to_stage(jid, st)
    \/ \E t \in TaskIds : StageTaskStart(t)
    \/ \E t \in TaskIds : \E out \in PipelineOutputs(tasks[t].phase) : PhaseSucceeds(t, out)
    \/ \E t \in TaskIds : \E part \in PartialOutputs(tasks[t].phase) : PhaseFails(t, part)

SpecDrive == InitDrive /\ [][NextDrive]_vars /\ WF_vars(DriveTaskStep)

\* The calls of _invoke_claude a generator client makes, one after the
\* other, with the replies the model service can give.
InitInvoke == NoJob /\ budget = 0 /\ other = NoOtherJob /\ invoke = NoInvoke

InvokeStep == \E reply \in Replies : InvokeAttempt(reply)

NextInvoke ==
    \/ \E system_prompt \in SystemPrompts : InvokeStart(system_prompt)
    \/ \E reply \in Replies : InvokeAttempt(reply)

SpecInvoke == InitInvoke /\ [][NextInvoke]_vars /\ WF_vars(InvokeStep)

\* The upload directory cannot be written: jobs created by generate, whose
\* task fails to save the document, and the stage requests sent for them.
InitNoFile == NoJob /\ budget = MaxNoFileRequests /\ other = NoOtherJob /\ invoke = NoInvoke

NextNoFile ==
    \/ \E cfg \in Configs : generate(cfg)
    \/ \E t \in TaskIds : RunSaveFails(t)
    \/ \E jid \in JobIds, st \in StageInputs : proceed_to_stage(jid, st)

SpecNoFile == InitNoFile /\ [][NextNoFile]_vars

\* Two jobs: the staged workflow of "j1" next to that of "j2", whose document
\* is validated already.  The server starts a task whose turn has come and a
\* call in progress returns or raises.
InitJobs == NoJob /\ budget = MaxJobsRequests /\ other = ValidatedOtherJob /\ invoke = NoInvoke

JobTaskStep ==
    \/ \E t \in TaskIds : StageTaskStart(t)
    \/ \E t \in TaskIds : \E out \in PipelineOutputs(tasks[t].phase) : PhaseSucceeds(t, out)
    \/ \E t \in TaskIds : \E part \in PartialOutputs(tasks[t].phase) : PhaseFails(t, part)
    \/ \E t \in TaskIds : Resume(t)

OtherTaskStep ==
    \/ OtherTaskStart
    \/ \E out \in PipelineOutputs(1) : OtherTaskSucceeds(out)
    \/ \E part \in PartialOutputs(1) : OtherTaskFails(part)

NextJobs ==
    \/ \E cfg \in Configs, o \in {"ok", "parse_error", "validation_error"} :
           validate_brd(cfg, o, 0)
    \/ \E jid \in JobIds, st \in StageInputs : proceed_to_stage(jid, st)
    \/ \E t \in TaskIds : StageTaskStart(t)
    \/ \E t \in TaskIds : \E out \in PipelineOutputs(tasks[t].phase) : PhaseSucceeds(t, out)
    \/ \E t \in TaskIds : \E part \in PartialOutputs(tasks[t].phase) : PhaseFails(t, part)
    \/ \E t \in TaskIds : Resume(t)
    \/ \E st \in {"EPICS"} : other_proceed_to_stage(st)
    \/ OtherTaskStart
    \/ \E out \in PipelineOutputs(1) : OtherTaskSucceeds(out)
    \/ \E part \in PartialOutputs(1) : OtherTaskFails(part)

SpecJobs ==
    InitJobs /\ [][NextJobs]_vars /\ WF_vars(JobTaskStep) /\ WF_vars(OtherTaskStep)

\* Job.update_step on the step lists a job can hold, duplicates included.
StepNameInputs == {ParseStep, PhaseStep[1], "Generating Report"}
StepStatuses == {"pending", "running", "completed", "failed"}
StepLists ==
    UNION {[1..n -> [name : {ParseStep, PhaseStep[1]}, status : {"pending", "running"},
                     duration_ms : {None}]] : n \in 0..MaxSteps}

InitSteps ==
    /\ exists = TRUE
    /\ artefacts = AllOn
    /\ status = "running"
    /\ error = None
    /\ steps \in StepLists
    /\ brd_data = [parsed |-> TRUE, chunks |-> DocChunks]
    /\ brd_file = TRUE
    /\ current_stage = None
    /\ stage_history = <<>>
    /\ epics = <<NewEpic("e1")>>
    /\ user_stories = <<>>
    /\ functional_tests = <<>>
    /\ gherkin_tests = <<>>
    /\ entities = <<>>
    /\ mermaid = 0
    /\ code_skeleton = FALSE
    /\ gap_fixes = <<>>
    /\ nextRef = 1
    /\ tasks = <<>>
    /\ loop = 0
    /\ response = NoResponse
    /\ nreq = 0
    /\ budget = MaxStepUpdates
    /\ other = NoOtherJob /\ invoke = NoInvoke
    /\ clock = 0
    /\ gen_call = NoCall
    /\ impact = <<>>

\* A call job.update_step(name, status, duration_ms); dur is None when the
\* duration is not given.  response records the arguments of the call.
UpdateStep(name, st, dur) ==
    /\ nreq < budget /\ nreq' = nreq + 1
    /\ steps' = update_step(steps, name, st, dur)
    /\ response' = Resp("update_step", JobId, name, 0, st, IF dur = None THEN 0 ELSE 1, 0)
    /\ UNCHANGED <<exists, artefacts, status, error, brd_data, brd_file, current_stage,
                   stage_history, storeVars, tasks, loop, budget, clock, gen_call, impact, other, invoke>>

NextSteps ==
    \E name \in StepNameInputs, st \in StepStatuses, dur \in {None, "ms"} :
        UpdateStep(name, st, dur)

SpecSteps == InitSteps /\ [][NextSteps]_vars

\* The monolithic and the staged run of a job created by generate, with the
\* status polls and downloads of its client.
InitObserve == NoJob /\ budget = MaxObserveRequests /\ other = NoOtherJob /\ invoke = NoInvoke

NextObserve ==
    \/ \E cfg \in Configs : generate(cfg)
    \/ \E st \in StageInputs : proceed_to_stage(JobId, st)
    \/ \E jid \in JobIds : get_status(jid)
    \/ \E jid \in JobIds : download_results(jid)
    \/ \E t \in TaskIds : RunStart(t)
    \/ \E t \in TaskIds : StageTaskStart(t)
    \/ \E t \in TaskIds : \E out \in PipelineOutputs(tasks[t].phase) : PhaseSucceeds(t, out)
    \/ \E t \in TaskIds : \E part \in PartialOutputs(tasks[t].phase) : PhaseFails(t, part)
    \/ \E t \in TaskIds : Resume(t)

SpecObserve == InitObserve /\ [][NextObserve]_vars

\* --------------------------------------------------- the artifact store
\* A job after validate_brd and a staged run of its four first stages: the
\* status of such a job is still "pending" and it has no steps.  The tasks
\* of those stages have ended and are left out.
Approved(stage, approved) ==
    [stage |-> stage, status |-> "completed", completed_at |-> TRUE,
     user_approved |-> approved]

JobAfterStages ==
    /\ exists = TRUE
    /\ artefacts = AllOn
    /\ status = "pending"
    /\ error = None
    /\ steps = <<>>
    /\ brd_data = [parsed |-> TRUE, chunks |-> DocChunks]
    /\ brd_file = TRUE
    /\ current_stage = "GHERKIN_TESTS"
    /\ stage_history = <<Approved("EPICS", TRUE), Approved("DATA_MODEL", TRUE),
                         Approved("FUNCTIONAL_TESTS", TRUE),
                         Approved("GHERKIN_TESTS", FALSE)>>
    /\ mermaid = 1
    /\ code_skeleton = FALSE
    /\ tasks = <<>>
    /\ loop = 0
    /\ response = NoResponse
    /\ nreq = 0
    /\ clock = 1
    /\ gen_call = NoCall
    /\ impact = <<>>

Gap(id, action, text) == [gap_id |-> id, user_action |-> action, final_text |-> text]

\* Two epics; a story with chunks of its own and of its acceptance
\* criterion, a story without any chunk, a story whose only chunk is not in
\* the index; tests of the three stories interleaved.
StoreA ==
    [epics |-> <<NewEpic("e1"), NewEpic("e2")>>,
     stories |-> <<NewStory("s1", "e1", {"c1"}, <<NewAC("a1", {"c2"})>>),
                   NewStory("s2", "e1", {}, <<NewAC("a2", {})>>),
                   NewStory("s3", "e2", {"c9"}, <<>>)>>,
     ftests |-> <<NewTest("t1", "s1"), NewTest("t2", "s3"), NewTest("t3", "s1"),
                  NewTest("t4", "s2")>>,
     gtests |-> <<NewTest("g1", "s3"), NewTest("g2", "s1")>>,
     entities |-> <<NewEntity("n1")>>,
     gaps |-> <<Gap(1, "pending", FALSE)>>]

\* The generator gave two stories of different epics the same id; the user
\* has edited the gap fix.
StoreB ==
    [epics |-> <<NewEpic("e1"), NewEpic("e2")>>,
     stories |-> <<NewStory("s1", "e1", {"c3"}, <<>>), NewStory("s1", "e2", {}, <<>>)>>,
     ftests |-> <<NewTest("t1", "s1")>>,
     gtests |-> <<NewTest("g1", "s1")>>,
     entities |-> <<>>,
     gaps |-> <<Gap(1, "edit", TRUE)>>]

Stores == {StoreA, StoreB}

Holds(store) ==
    /\ epics = store.epics
    /\ user_stories = WithRefs(store.stories, 1)
    /\ nextRef = Len(store.stories) + 1
    /\ functional_tests = store.ftests
    /\ gherkin_tests = store.gtests
    /\ entities = store.entities
    /\ gap_fixes = store.gaps

\* A job after validate_brd whose staged EPICS generation has finished and
\* was approved, and whose DATA_MODEL generation has raised: the job is
\* failed and the StageState of DATA_MODEL is still running.  The two tasks
\* have ended and are left out.
StoreEpics == [StoreA EXCEPT !.ftests = <<>>, !.gtests = <<>>, !.entities = <<>>]

InitRetry ==
    /\ exists = TRUE
    /\ artefacts = AllOn
    /\ status = "failed"
    /\ error = PhaseStep[2]
    /\ steps = <<>>
    /\ brd_data = [parsed |-> TRUE, chunks |-> DocChunks]
    /\ brd_file = TRUE
    /\ current_stage = "DATA_MODEL"
    /\ stage_history = <<Approved("EPICS", TRUE),
                         [stage |-> "DATA_MODEL", status |-> "running",
                          completed_at |-> FALSE, user_approved |-> FALSE]>>
    /\ Holds(StoreEpics)
    /\ mermaid = 0
    /\ code_skeleton = FALSE
    /\ tasks = <<>>
    /\ loop = 0
    /\ response = NoResponse
    /\ nreq = 0
    /\ budget = MaxRetryRequests
    /\ other = NoOtherJob /\ invoke = NoInvoke
    /\ clock = 0
    /\ gen_call = NoCall
    /\ impact = <<>>

\* The stage requests of the user who looks back at earlier stages and
\* retries, with the generations they start.
NextRetry ==
    \/ \E jid \in JobIds, st \in StageInputs : proceed_to_stage(jid, st)
    \/ \E t \in TaskIds : StageTaskStart(t)
    \/ \E t \in TaskIds : \E out \in PipelineOutputs(tasks[t].phase) : PhaseSucceeds(t, out)
    \/ \E t \in TaskIds : \E part \in PartialOutputs(tasks[t].phase) : PhaseFails(t, part)

SpecRetry == InitRetry /\ [][NextRetry]_vars

InitStore ==
    /\ JobAfterStages
    /\ \E store \in Stores : Holds(store)
    /\ budget = MaxStoreRequests
    /\ other = NoOtherJob /\ invoke = NoInvoke

EpicInputs == {"e1", "e2", "ex"}
StoryInputs == {"s1", "s2", "s3", "sx"}

NextStore ==
    \/ \E jid \in JobIds, eid \in EpicInputs : delete_epic(jid, eid)
    \/ \E jid \in JobIds, sid \in StoryInputs, vals \in Edits : update_story(jid, sid, vals)
    \/ \E jid \in JobIds, gid \in {1, 9} : update_gap_fix(jid, gid, "accept", FALSE)
    \/ \E jid \in JobIds, sid \in StoryInputs : regenerate_story_tests(jid, sid)
    \/ \E jid \in JobIds, sid \in StoryInputs, outcome \in {"ok", "raise"} :
           \E out \in FocusedOutputs(sid) : generate_more_tests(jid, sid, out, outcome)
    \/ \E t \in TaskIds : RegenStart(t)
    \/ \E t \in TaskIds : RegenFunctionalReturns(t)
    \/ \E t \in TaskIds : \E out \in FocusedOutputs(tasks[t].story.id) :
           RegenFunctionalStored(t, out)
    \/ \E t \in TaskIds : RegenGherkinReturns(t)
    \/ \E t \in TaskIds : \E out \in FocusedOutputs(tasks[t].story.id) :
           RegenGherkinStored(t, out)
    \/ \E t \in TaskIds : RegenFails(t)

SpecStore == InitStore /\ [][NextStore]_vars

\* The edit, delete, regeneration and cascade-analysis handlers on a job
\* that holds artifacts, with the background tasks they start.
InitEdit ==
    /\ JobAfterStages
    /\ \E store \in Stores : Holds(store)
    /\ budget = MaxEditRequests
    /\ other = NoOtherJob /\ invoke = NoInvoke

TestInputs == {"t1", "g1", "tx"}

EditStoryInputs == {"s1", "s2", "sx"}
EditEpicInputs == {"e1", "ex"}
NextEdit ==
    \/ \E jid \in JobIds, eid \in EditEpicInputs : update_epic(jid, eid)
    \/ \E jid \in JobIds, sid \in EditStoryInputs, vals \in Edits : update_story(jid, sid, vals)
    \/ \E jid \in JobIds, sid \in EditStoryInputs, criteria \in CriteriaInputs :
           update_acceptance_criteria(jid, sid, criteria)
    \/ \E jid \in JobIds, eid \in EditEpicInputs : delete_epic(jid, eid)
    \/ \E jid \in JobIds, sid \in EditStoryInputs : delete_story(jid, sid)
    \/ \E jid \in JobIds, tid \in TestInputs, type \in TestTypes :
           delete_test(jid, tid, type)
    \/ \E jid \in JobIds, sid \in EditStoryInputs : regenerate_story_tests(jid, sid)
    \/ \E jid \in JobIds, sid \in EditStoryInputs : regenerate_story_entities(jid, sid)
    \/ \E jid \in JobIds, sid \in EditStoryInputs : analyze_cascade_impact(jid, sid)
    \/ \E t \in TaskIds : RegenStart(t)
    \/ \E t \in TaskIds : RegenFunctionalReturns(t)
    \/ \E t \in TaskIds : \E out \in FocusedOutputs(tasks[t].story.id) :
           RegenFunctionalStored(t, out)
    \/ \E t \in TaskIds : RegenGherkinReturns(t)
    \/ \E t \in TaskIds : \E out \in FocusedOutputs(tasks[t].story.id) :
           RegenGherkinStored(t, out)
    \/ \E t \in TaskIds : RegenFails(t)
    \/ \E t \in TaskIds : EntitiesStart(t)
    \/ \E t \in TaskIds : \E out \in EntityOutputs : EntitiesReturn(t, out)
    \/ \E t \in TaskIds : EntitiesFails(t)

SpecEdit == InitEdit /\ [][NextEdit]_vars

\* generate_more requests on a job that holds artifacts, with the gap-fix
\* decisions of the user and the tasks the requests start.
InitMore ==
    /\ JobAfterStages
    /\ \E store \in Stores : Holds(store)
    /\ budget = MaxMoreRequests
    /\ other = NoOtherJob /\ invoke = NoInvoke

ContextInputs == {{}, {"s1"}, {"s2", "sx"}}

NextMore ==
    \/ \E jid \in JobIds, stage \in StageNames, ctx \in ContextInputs :
           generate_more(jid, stage, ctx)
    \/ \E jid \in JobIds, action \in {"accept", "reject"} :
           update_gap_fix(jid, 1, action, FALSE)
    \/ \E t \in TaskIds : MoreStart(t)
    \/ \E t \in TaskIds : \E out \in MoreOutputs(stories_to_use(tasks[t].context)) :
           \E valid \in 0..Len(out) : MoreReturns(t, out, valid)
    \/ \E t \in TaskIds : MoreFails(t)

SpecMore == InitMore /\ [][NextMore]_vars

\* Regenerations of the tests of a story and the status polls of the client.
InitPoll == JobAfterStages /\ Holds(StoreA) /\ budget = MaxPollRequests /\ other = NoOtherJob /\ invoke = NoInvoke

NextPoll ==
    \/ \E jid \in JobIds, sid \in StoryInputs : regenerate_story_tests(jid, sid)
    \/ \E jid \in JobIds : get_status(jid)
    \/ \E t \in TaskIds : RegenStart(t)
    \/ \E t \in TaskIds : RegenFunctionalReturns(t)
    \/ \E t \in TaskIds : \E out \in FocusedOutputs(tasks[t].story.id) :
           RegenFunctionalStored(t, out)
    \/ \E t \in TaskIds : RegenGherkinReturns(t)
    \/ \E t \in TaskIds : \E out \in FocusedOutputs(tasks[t].story.id) :
           RegenGherkinStored(t, out)
    \/ \E t \in TaskIds : RegenFails(t)

SpecPoll == InitPoll /\ [][NextPoll]_vars

\* ------------------------------------------------- cascade risk analysis
\* A job whose stories s1 and s2 have a and b functional tests, g and h
\* scenarios, and c and d entities.
TestsOf(n, sid, from) == [i \in 1..n |-> NewTest(ToString(from + i), sid)]
EntitiesOf(n, sid, from) ==
    [i \in 1..n |-> [NewEntity(ToString(from + i)) EXCEPT !.source_story_ids = {sid}]]

InitRisk ==
    /\ JobAfterStages
    /\ epics = <<NewEpic("e1")>>
    /\ user_stories = WithRefs(<<NewStory("s1", "e1", {"c1"}, <<>>),
                                 NewStory("s2", "e1", {"c2"}, <<>>)>>, 1)
    /\ nextRef = 3
    /\ gap_fixes = <<>>
    /\ \E a, b \in 0..MaxCount :
          functional_tests = TestsOf(a, "s1", 0) \o TestsOf(b, "s2", a)
    /\ \E g, h \in 0..1 : gherkin_tests = TestsOf(g, "s1", 0) \o TestsOf(h, "s2", g)
    /\ \E c, d \in 0..MaxEntities :
          entities = EntitiesOf(c, "s1", 0) \o EntitiesOf(d, "s2", c)
    /\ budget = MaxRiskRequests
    /\ other = NoOtherJob /\ invoke = NoInvoke

NextRisk == \E jid \in JobIds, sid \in {"s1", "s2", "sx"} : analyze_cascade_impact(jid, sid)

SpecRisk == InitRisk /\ [][NextRisk]_vars

\* ================================================================ claims
RunningSteps == {i \in 1..Len(steps) : steps[i].status = "running"}
LiveTasks == {t \in TaskIds : tasks[t].pc # "done"}
HandledBy(op) == nreq' = nreq + 1 /\ response'.op = op

\* C1: in every reachable state at most one Step of the job is running.
C1_AtMostOneRunningStep == Cardinality(RunningSteps) <= 1

\* A step is running while a second generation task of the same job is live
\* and the step list holds two steps of the same name.
C1_Witness ==
    /\ Cardinality(RunningSteps) = 1
    /\ Cardinality(LiveTasks) = 2
    /\ \E i, j \in 1..Len(steps) : i # j /\ steps[i].name = steps[j].name

\* C2: at most one generation (a pipeline run that has started and not
\* finished, or a proceed_to_stage generation that has started and not
\* finished) is in flight for the job at any instant.
GenerationInFlight(t) ==
    tasks[t].kind \in {"run", "stage"} /\ tasks[t].pc \in {"mid", "between", "sleep"}
C4_ReentryIsNoOp ==
    [][ ( /\ HandledBy("proceed_to_stage")
          /\ exists /\ response'.job = JobId
          /\ \E i \in 1..Len(stage_history) :
                /\ stage_history[i].stage = response'.arg
                /\ stage_history[i].status = "completed" )
        => ( /\ response'.code = 200
             /\ response'.status = "already_completed"
             /\ current_stage' = response'.arg
             /\ UNCHANGED <<tasks, steps, status, error, stage_history, brd_data,
                            storeVars>> ) ]_vars

\* A completed stage that holds artifacts has been re-entered from a later one.
C4_Witness ==
    /\ response.op = "proceed_to_stage" /\ response.status = "already_completed"
    /\ current_stage = "EPICS"
    /\ user_stories # <<>>
    /\ \E i \in 1..Len(stage_history) : stage_history[i].stage = "FUNCTIONAL_TESTS"

\* C9: with DATA_MODEL disabled, proceed_to_stage(FUNCTIONAL_TESTS) from
\* current stage EPICS, with no DATA_MODEL StageState in the history, is
\* answered started and queues a generation for FUNCTIONAL_TESTS; that
\* generation runs the functional-test method of the pipeline.
C9_DisabledStageDoesNotBlock ==
    [][ /\ ( /\ HandledBy("proceed_to_stage")
             /\ exists /\ response'.job = JobId /\ brd_file
             /\ response'.arg = "FUNCTIONAL_TESTS"
             /\ ~artefacts.data_model
             /\ current_stage = "EPICS"
             /\ \A i \in 1..Len(stage_history) :
                   /\ stage_history[i].stage # "DATA_MODEL"
                   /\ ~(stage_history[i].stage = "FUNCTIONAL_TESTS"
                        /\ stage_history[i].status = "completed") )
           => ( /\ response'.code = 200 /\ response'.status = "started"
                /\ Len(tasks') = Len(tasks) + 1
                /\ tasks'[Len(tasks')].kind = "stage"
                /\ tasks'[Len(tasks')].stage = "FUNCTIONAL_TESTS"
                /\ tasks'[Len(tasks')].pc = "queued"
                /\ current_stage' = "FUNCTIONAL_TESTS" )
        /\ \A t \in TaskIds :
              ( /\ tasks[t].kind = "stage" /\ tasks[t].stage = "FUNCTIONAL_TESTS"
                /\ tasks[t].pc # "mid" /\ tasks'[t].pc = "mid"
                /\ tasks'[t].phase # 0 )
              => tasks'[t].phase = 3 ]_vars

\* The functional tests of a job without DATA_MODEL were generated by a
\* staged run that went from EPICS straight to FUNCTIONAL_TESTS.
C9_Witness ==
    /\ ~artefacts.data_model
    /\ current_stage = "FUNCTIONAL_TESTS"
    /\ functional_tests # <<>>
    /\ \A i \in 1..Len(stage_history) : stage_history[i].stage # "DATA_MODEL"
    /\ \E i \in 1..Len(stage_history) :
          stage_history[i].stage = "EPICS" /\ stage_history[i].user_approved
    /\ \E t \in TaskIds : /\ tasks[t].kind = "stage" /\ tasks[t].pc = "done"
                          /\ tasks[t].stage = "FUNCTIONAL_TESTS" /\ tasks[t].phase = 3
    /\ status # "failed"

\* C3: delete_epic(E) on an existing epic, in a job where every test names
\* an existing story, removes epic E and exactly the N stories of E, reports
\* deleted_stories_count = N, removes every functional test and scenario of
\* those stories, leaves every other epic, story and test as it was, and
\* leaves no test naming a removed story.
TestsNameStories(tests) ==
    \A i \in 1..Len(tests) : tests[i].story_id \in StoryIdsOf(user_stories)
C3_DeleteEpicCascades ==
    [][ ( /\ HandledBy("delete_epic")
          /\ exists /\ response'.job = JobId
          /\ \E i \in 1..Len(epics) : epics[i].id = response'.arg
          /\ TestsNameStories(functional_tests) /\ TestsNameStories(gherkin_tests) )
        => LET E == response'.arg
               gone == {i \in 1..Len(user_stories) : user_stories[i].epic_id = E}
               goneIds == {user_stories[i].id : i \in gone}
               Kept(x) == x.story_id \notin goneIds
           IN  /\ response'.code = 200
               /\ response'.n1 = Cardinality(gone)
               /\ epics' = SelectSeq(epics, LAMBDA x : x.id # E)
               /\ user_stories' = SelectSeq(user_stories, LAMBDA x : x.epic_id # E)
               /\ functional_tests' = SelectSeq(functional_tests, Kept)
               /\ gherkin_tests' = SelectSeq(gherkin_tests, Kept)
               /\ \A i \in 1..Len(functional_tests') : Kept(functional_tests'[i])
               /\ \A i \in 1..Len(gherkin_tests') : Kept(gherkin_tests'[i])
               /\ UNCHANGED <<entities, mermaid, gap_fixes>> ]_vars

\* Epic e1 with its two stories, three functional tests and one scenario was
\* deleted; epic e2 keeps its story and its two tests.
C3_Witness ==
    /\ response.op = "delete_epic" /\ response.code = 200 /\ response.n1 = 2
    /\ Len(epics) = 1 /\ epics[1].id = "e2"
    /\ Len(user_stories) = 1 /\ user_stories[1].id = "s3"
    /\ functional_tests = <<NewTest("t2", "s3")>>
    /\ gherkin_tests = <<NewTest("g1", "s3")>>

\* C5: update_story(S, title, role, goal, benefit) on an existing story S
\* sets S.regeneration_needed, sets S.edited_at to the time of the request,
\* and changes no field of any other story of the job.
C5_UpdateStoryFlagsOnlyThatStory ==
    [][ ( /\ HandledBy("update_story")
          /\ exists /\ response'.job = JobId
          /\ \E i \in 1..Len(user_stories) : user_stories[i].id = response'.arg )
        => LET S == response'.arg
               k == CHOOSE i \in 1..Len(user_stories) :
                       /\ user_stories[i].id = S
                       /\ \A j \in 1..(i - 1) : user_stories[j].id # S
           IN  /\ response'.code = 200
               /\ Len(user_stories') = Len(user_stories)
               /\ user_stories'[k].regeneration_needed
               /\ user_stories'[k].edited_at = clock'
               /\ clock' > clock
               /\ \A j \in 1..Len(user_stories) : j # k => user_stories'[j] = user_stories[j]
               /\ user_stories'[k].id = S
               /\ user_stories'[k].ref = user_stories[k].ref ]_vars

\* The first of two stories with the same id was edited; the second one is
\* as it was.
C5_Witness ==
    /\ response.op = "update_story" /\ response.code = 200
    /\ Len(user_stories) = 2
    /\ user_stories[1].id = user_stories[2].id
    /\ user_stories[1].regeneration_needed /\ user_stories[1].title = "T1"
    /\ ~user_stories[2].regeneration_needed /\ user_stories[2].title = "T0"

\* The regeneration task t ends in this step.
RegenEnds(t) ==
    tasks[t].kind = "regen_tests" /\ tasks[t].pc # "done" /\ tasks'[t].pc = "done"

\* The functional tests and the scenarios as they were when task t started.
StartF(t) == IF tasks[t].pc = "queued" THEN functional_tests ELSE tasks[t].pre_f
StartG(t) == IF tasks[t].pc = "queued" THEN gherkin_tests ELSE tasks[t].pre_g

\* When task t ends, the tests of its story are those of this run and the
\* tests of the other stories are as they were when it started.
RegenReplaced(t) ==
    LET S == tasks[t].story.id
        Other(x) == x.story_id # S
        OldOf(pre) == {pre[i] : i \in {j \in 1..Len(pre) : pre[j].story_id = S}}
    IN  /\ SelectSeq(functional_tests', Other) = SelectSeq(StartF(t), Other)
        /\ SelectSeq(gherkin_tests', Other) = SelectSeq(StartG(t), Other)
        /\ \A i \in 1..Len(functional_tests') :
              functional_tests'[i].story_id = S
              => /\ functional_tests'[i].regenerated_at = tasks[t].stamp
                 /\ functional_tests'[i] \notin Range(StartF(t))
        /\ \A i \in 1..Len(gherkin_tests') :
              gherkin_tests'[i].story_id = S
              => /\ gherkin_tests'[i].regenerated_at = clock'
                 /\ gherkin_tests'[i] \notin Range(StartG(t))
        /\ \A i \in 1..Len(StartF(t)) : StartF(t)[i].regenerated_at < tasks[t].stamp
        /\ \A i \in 1..Len(StartG(t)) : StartG(t)[i].regenerated_at < clock'
        /\ OldOf(StartF(t)) \cap Range(functional_tests') = {}
        /\ OldOf(StartG(t)) \cap Range(gherkin_tests') = {}

\* C6, amended: when a regenerate_story_tests(S) task ends without raising
\* and the generator answered it with tests of S only, every functional test
\* and scenario S had when it started is gone, the tests of S are those this
\* run produced, and the tests of the other stories are the same, in the
\* same order; this holds for every run, a repeated one included.
C6_ReplaceNotMerge ==
    [][ \A t \in TaskIds :
           (RegenEnds(t) /\ response'.status = "finished" /\ response'.n1 = 0)
           => RegenReplaced(t) ]_vars

\* C6 as stated, whatever story ids the generator's answer carries.
C6_AsStated ==
    [][ \A t \in TaskIds :
           (RegenEnds(t) /\ response'.status = "finished") => RegenReplaced(t) ]_vars

\* Story s1 was regenerated twice: its tests are those of the second run
\* only, which replaced the tests of the first, and the tests of s3 and s2
\* are in place.
C6_Witness ==
    /\ Len(tasks) = 2
    /\ \A t \in 1..2 : tasks[t].kind = "regen_tests" /\ tasks[t].pc = "done"
    /\ response.op = "regen_tests_task" /\ response.status = "finished"
    /\ response.arg = "s1" /\ response.n1 = 0
    /\ SelectSeq(functional_tests, LAMBDA x : x.story_id # "s1")
          = <<NewTest("t2", "s3"), NewTest("t4", "s2")>>
    /\ Len(functional_tests) = 3
    /\ functional_tests[3].story_id = "s1"
    /\ functional_tests[3].regenerated_at = 4
    /\ clock = 5
    /\ Len(gherkin_tests) = 2 /\ gherkin_tests[2].regenerated_at = clock

\* C10: when the background task of regenerate_story_tests raises, the
\* functional tests and the scenarios of the job are both exactly as they
\* were when the task started.
C10_FailedRegenLeavesTestsAsTheyWere ==
    [][ \A t \in TaskIds :
           (RegenEnds(t) /\ response'.status = "raised")
           => /\ functional_tests' = StartF(t)
              /\ gherkin_tests' = StartG(t) ]_vars

\* C8: generate_more_tests for a story S passes to the generator exactly the
\* entries of the chunk index whose id is in S.source_chunks or in the
\* source_chunks of one of S's acceptance criteria; when that set of ids is
\* empty the request fails with 400, no call is made and no test is added.
C8_MoreTestsUsesTheStorysChunks ==
    [][ ( /\ HandledBy("generate_more_tests")
          /\ exists /\ response'.job = JobId
          /\ \E i \in 1..Len(user_stories) : user_stories[i].id = response'.arg )
        => LET k == CHOOSE i \in 1..Len(user_stories) :
                       /\ user_stories[i].id = response'.arg
                       /\ \A j \in 1..(i - 1) : user_stories[j].id # response'.arg
               S == user_stories[k]
               ids == S.source_chunks \cup
                      UNION {S.acceptance_criteria[a].source_chunks :
                                a \in 1..Len(S.acceptance_criteria)}
               InIds(c) == c \in ids
               expected == SelectSeq(brd_data.chunks, InIds)
               called == response'.code \in {200, 500}
           IN  /\ ids = {} => response'.code = 400
               /\ (ids # {} /\ expected # <<>>) => called
               /\ called => /\ gen_call'.kind = "functional_tests"
                            /\ gen_call'.stories = <<S.id>>
                            /\ gen_call'.chunks = expected
                            /\ \A i \in 1..Len(gen_call'.chunks) : gen_call'.chunks[i] \in ids
               /\ ~called => UNCHANGED <<gen_call, functional_tests>>
               /\ response'.code = 200
                  => /\ Len(functional_tests') = Len(functional_tests) + response'.n1
                     /\ SubSeq(functional_tests', 1, Len(functional_tests)) = functional_tests
               /\ UNCHANGED <<epics, user_stories, gherkin_tests, entities>> ]_vars

\* More tests were generated for s1 from its own chunk c1 and the chunk c2
\* of its acceptance criterion, and a test was added.
C8_Witness ==
    /\ response.op = "generate_more_tests" /\ response.code = 200
    /\ response.arg = "s1" /\ response.n1 = 1
    /\ gen_call.chunks = <<"c1", "c2">>
    /\ Len(functional_tests) = 5

\* C7: the risk level analyze_cascade_impact reports is monotonic: of two
\* reports, the one with at least as many affected tests and at least as
\* many affected entities has at least the risk level of the other, in the
\* order low < medium < high.
RiskRank(level) == CASE level = "low" -> 1 [] level = "medium" -> 2 [] level = "high" -> 3
C7_RiskIsMonotonic ==
    \A i, j \in 1..Len(impact) :
       ( /\ impact[i].affected_tests <= impact[j].affected_tests
         /\ impact[i].affected_entities <= impact[j].affected_entities )
       => RiskRank(impact[i].risk_level) <= RiskRank(impact[j].risk_level)

\* A report of medium risk for few tests and four entities is followed by
\* one of high risk for more tests and as many entities.
C7_Witness ==
    /\ Len(impact) = 2
    /\ impact[1].affected_tests < impact[2].affected_tests
    /\ impact[1].affected_entities = impact[2].affected_entities
    /\ impact[1].risk_level = "medium" /\ impact[2].risk_level = "high"
    /\ impact[1].affected_tests <= MediumTests
    /\ impact[1].affected_entities = MediumEntities + 1

\* ---------------------------------------------------------- monolithic run
\* Stage i is enabled in the job's artifact configuration.
ConfigEnabled(i) ==
    CASE i = 1 -> artefacts.epics_and_stories
      [] i = 2 -> artefacts.data_model
      [] i = 3 -> artefacts.functional_tests
      [] i = 4 -> artefacts.gherkin_tests
      [] i = 5 -> artefacts.code_skeleton

\* The job holds what stage i works on, in the state a step leads to.
HasInput(i) ==
    CASE i = 1 -> TRUE
      [] i \in {2, 3, 4} -> user_stories' # <<>>
      [] i = 5 -> entities' # <<>>

\* Task t ends in this step; it ends by an exception when the phase it was
\* in is not one it finished.
TaskEnds(t) == tasks[t].pc # "done" /\ tasks'[t].pc = "done"
TaskRaised(t) == TaskEnds(t) /\ tasks'[t].phase \notin tasks'[t].ran
RunCompletes(t) == tasks[t].kind = "run" /\ TaskEnds(t) /\ ~TaskRaised(t)

\* The second half of C13: the run whose parser or generator call fails
\* marks the job failed with the error and starts no later stage.
FailedRunStops ==
    \A t \in TaskIds :
       /\ (tasks[t].kind = "run" /\ TaskRaised(t))
          => /\ status' = "failed" /\ error' # None
             /\ tasks'[t].pc = "done"
       /\ tasks[t].pc = "done" => /\ t \in DOMAIN tasks'
                                  /\ tasks'[t].pc = "done"
                                  /\ tasks'[t].phase = tasks[t].phase
                                  /\ tasks'[t].ran = tasks[t].ran

\* The status becomes completed only in the step in which a run ends
\* without an exception.
CompletedByARun ==
    (status' = "completed" /\ status # "completed")
    => \E t \in TaskIds : RunCompletes(t)

C14_CompletedJobHasOnlyCompletedSteps ==
    status = "completed" => \A i \in 1..Len(steps) : steps[i].status = "completed"

\* C20: in the state a failing run (monolithic or staged) leaves, the job's
\* status is failed, its error is recorded, and no Step is running.
C20_FailedJobHasNoRunningStep ==
    [][ \A t \in TaskIds :
           (tasks[t].kind \in {"run", "stage"} /\ TaskRaised(t))
           => /\ status' = "failed"
              /\ error' # None
              /\ \A i \in 1..Len(steps') : steps'[i].status # "running" ]_vars

\* A staged generation has failed in a job whose steps a monolithic run had
\* created: the step of the stage is failed and none is running.
C20_Witness ==
    /\ status = "failed" /\ error # None
    /\ \E t \in TaskIds : /\ tasks[t].kind = "stage" /\ tasks[t].pc = "done"
                          /\ tasks[t].phase > 0 /\ tasks[t].phase \notin tasks[t].ran
                          /\ error = StepOfPhase(tasks[t].phase)
    /\ \E i \in 1..Len(steps) : steps[i].status = "failed" /\ steps[i].name = error
    /\ \A i \in 1..Len(steps) : steps[i].status # "running"

\* ------------------------------------------------ artifacts after a failure
IsPrefix(old, new) == Len(old) <= Len(new) /\ SubSeq(new, 1, Len(old)) = old

\* C15: when a stage of a monolithic or staged run fails, every artifact the
\* job held from the stages finished before is still in the store, unchanged
\* and in its place, and get_status on the failed job returns the store as
\* it is, those artifacts included.
C15_FailureKeepsEarlierArtifacts ==
    [][ /\ \A t \in TaskIds :
              (tasks[t].kind \in {"run", "stage"} /\ TaskRaised(t))
              => /\ IsPrefix(epics, epics')
                 /\ IsPrefix(user_stories, user_stories')
                 /\ IsPrefix(functional_tests, functional_tests')
                 /\ IsPrefix(gherkin_tests, gherkin_tests')
                 /\ IsPrefix(entities, entities')
                 /\ UNCHANGED <<mermaid, code_skeleton, gap_fixes, brd_data>>
        /\ (HandledBy("get_status") /\ JobFound(response'.job) /\ status = "failed")
           => /\ response'.code = 200
              /\ response'.body.status = "failed"
              /\ response'.body.error = error
              /\ response'.body.results = Results
              /\ UNCHANGED storeVars ]_vars

\* get_status has returned the epic, the story and the functional test of a
\* job whose run failed in the Gherkin stage.
C15_Witness ==
    /\ response.op = "get_status" /\ response.code = 200
    /\ response.body.status = "failed"
    /\ response.body.error = PhaseStep[4]
    /\ Len(response.body.results.epics) = 1
    /\ Len(response.body.results.user_stories) = 1
    /\ Len(response.body.results.functional_tests) = 1
    /\ \E t \in TaskIds : /\ tasks[t].kind = "run" /\ tasks[t].pc = "done"
                          /\ tasks[t].phase = 4 /\ tasks[t].ran = {0, 1, 3}

\* C16: download_results on a job whose later stage has failed, and which
\* holds the artifacts of its earlier stages, succeeds.
C16_DownloadAfterFailure ==
    [][ ( /\ HandledBy("download_results") /\ JobFound(response'.job)
          /\ status = "failed"
          /\ \E t \in TaskIds : /\ tasks[t].pc = "done"
                                /\ tasks[t].phase \notin tasks[t].ran
          /\ \E t \in TaskIds : tasks[t].ran \cap (1..Len(PhaseStep)) # {}
          /\ epics # <<>> /\ user_stories # <<>> )
        => response'.code = 200 ]_vars

\* ------------------------------------------------- polls and regeneration
TestsOfStory(tests, sid) == SelectSeq(tests, LAMBDA x : x.story_id = sid)

\* A snapshot taken while regeneration task t has not ended shows, of the
\* story of t, either the functional tests it had when t started or only
\* tests inserted by t, and the scenarios it had when t started.
SeenWhole(t, results) ==
    LET S == tasks[t].story.id
        seenF == TestsOfStory(results.functional_tests, S)
        seenG == TestsOfStory(results.gherkin_tests, S)
    IN  /\ \/ seenF = TestsOfStory(StartF(t), S)
           \/ /\ tasks[t].phase = 4
              /\ \A i \in 1..Len(seenF) : seenF[i].regenerated_at = tasks[t].stamp
        /\ seenG = TestsOfStory(StartG(t), S)

\* C11: a get_status answered while a regenerate_story_tests(S) task has not
\* ended never shows the functional tests or the scenarios of S removed and
\* not yet replaced: the task is not between a removal and the insertion
\* that follows it, and the snapshot holds the tests of S as they were when
\* the task started.
C11_PollSeesNoTornCollection ==
    [][ (HandledBy("get_status") /\ response'.code = 200)
        => /\ response'.body.results = Results
           /\ \A t \in TaskIds :
                 (tasks[t].kind = "regen_tests" /\ tasks[t].pc # "done")
                 => /\ tasks[t].pc # "swap"
                    /\ SeenWhole(t, response'.body.results) ]_vars

\* A poll was answered while a regeneration of s1 was waiting to start, after
\* an earlier regeneration of s1 had replaced its tests: the snapshot holds
\* the tests of the earlier run and none of the first ones.
C11_Witness ==
    /\ response.op = "get_status" /\ response.code = 200
    /\ \E t \in TaskIds : /\ tasks[t].kind = "regen_tests" /\ tasks[t].pc = "queued"
                          /\ tasks[t].story.id = "s1"
    /\ \E t \in TaskIds : tasks[t].kind = "regen_tests" /\ tasks[t].pc = "done"
    /\ LET seen == TestsOfStory(response.body.results.functional_tests, "s1")
       IN  Len(seen) = 1 /\ seen[1].regenerated_at > 0
    /\ TestsOfStory(response.body.results.gherkin_tests, "s1") = <<>>

\* ------------------------------------------------ unknown identifiers
EditOps ==
    {"update_epic", "update_story", "update_acceptance_criteria", "delete_epic",
     "delete_story", "delete_test", "regenerate_story_tests",
     "regenerate_story_entities", "analyze_cascade_impact"}
EpicOps == {"update_epic", "delete_epic"}
TestOps == {"delete_test"}
StoryOps == (EditOps \ EpicOps) \ TestOps
PayloadOps == {"update_acceptance_criteria", "delete_test"}

\* The identifier of the request just answered names nothing the job holds.
UnknownId(op) ==
    LET id == response'.arg
    IN  \/ ~JobFound(response'.job)
        \/ op \in EpicOps /\ \A i \in 1..Len(epics) : epics[i].id # id
        \/ op \in StoryOps /\ \A i \in 1..Len(user_stories) : user_stories[i].id # id
        \/ /\ op \in TestOps
           /\ \A i \in 1..Len(functional_tests) : functional_tests[i].id # id
           /\ \A i \in 1..Len(gherkin_tests) : gherkin_tests[i].id # id

Untouched == UNCHANGED <<jobVars, storeVars, tasks>>

\* C12: an edit, delete, regenerate or cascade-analysis request that names
\* an unknown job, epic, story or test is answered with 404, or with 400 by
\* update_acceptance_criteria and delete_test on a known job (they reject a
\* criteria payload that is not JSON and an unrecognised test type before
\* they look the identifier up); it adds no background task and changes
\* nothing of the job and its artifacts.
C12_UnknownIdIsRefused ==
    [][ \A op \in EditOps :
          (HandledBy(op) /\ UnknownId(op))
          => /\ \/ response'.code = 404
                \/ /\ response'.code = 400
                   /\ op \in PayloadOps /\ JobFound(response'.job)
             /\ Untouched ]_vars

\* C12 as stated: the answer to an unknown identifier is always 404.
C12_AsStated ==
    [][ \A op \in EditOps :
          (HandledBy(op) /\ UnknownId(op))
          => (response'.code = 404 /\ Untouched) ]_vars

\* The criteria of the unknown story sx of the known job were sent as valid
\* JSON and refused with 404; no task was added.
C12_Witness ==
    /\ response.op = "update_acceptance_criteria" /\ response.job = JobId
    /\ response.arg = "sx" /\ response.code = 404
    /\ \A i \in 1..Len(user_stories) : user_stories[i].id # "sx"
    /\ nreq = 1 /\ tasks = <<>>

\* ------------------------------------------------------- delete_story
\* C18: delete_story(S) on an existing story removes the stories of id S and
\* the functional tests and scenarios whose story_id is S, reports the
\* numbers of tests it removed, and leaves the epics, the other stories and
\* the tests of the other stories as they were, in their order.
C18_DeleteStoryCascades ==
    [][ (HandledBy("delete_story") /\ response'.code = 200)
        => LET S == response'.arg
               Rest(seq) == SelectSeq(seq, LAMBDA x : x.story_id # S)
           IN  /\ \E i \in 1..Len(user_stories) : user_stories[i].id = S
               /\ user_stories' = SelectSeq(user_stories, LAMBDA x : x.id # S)
               /\ functional_tests' = Rest(functional_tests)
               /\ gherkin_tests' = Rest(gherkin_tests)
               /\ response'.n1 = Len(functional_tests) - Len(functional_tests')
               /\ response'.n2 = Len(gherkin_tests) - Len(gherkin_tests')
               /\ UNCHANGED <<epics, entities>> ]_vars

\* Story s1 was deleted from the store that held two functional tests and
\* one scenario of s1 among the tests of s2 and s3.
C18_Witness ==
    /\ response.op = "delete_story" /\ response.code = 200 /\ response.arg = "s1"
    /\ response.n1 = 2 /\ response.n2 = 1
    /\ Len(user_stories) = 2 /\ Len(functional_tests) = 2 /\ Len(gherkin_tests) = 1
    /\ \A i \in 1..Len(user_stories) : user_stories[i].id # "s1"

\* ------------------------------------------------ referential integrity
ReferentialIntegrity ==
    /\ \A i \in 1..Len(functional_tests) :
          functional_tests[i].story_id \in StoryIdsOf(user_stories)
    /\ \A i \in 1..Len(gherkin_tests) :
          gherkin_tests[i].story_id \in StoryIdsOf(user_stories)
    /\ \A i \in 1..Len(user_stories) :
          \E k \in 1..Len(epics) : epics[k].id = user_stories[i].epic_id

\* C17: as long as the generator answers a regeneration only with tests of
\* the story it was given, no step takes the job from a state where every
\* test names a story of the job and every story names an epic of the job
\* to a state where one does not.
C17_ReferentialIntegrityKept ==
    [][ ( /\ ReferentialIntegrity
          /\ \A t \in 1..Len(tasks') : ~tasks'[t].foreign
          /\ \A t \in TaskIds : ~tasks[t].foreign )
        => ReferentialIntegrity' ]_vars

\* ------------------------------------------------- regeneration_needed
\* The story object ref is flagged before the step and not after it.
FlagCleared(ref) ==
    \E i \in 1..Len(user_stories) : \E j \in 1..Len(user_stories') :
        /\ user_stories[i].ref = ref /\ user_stories'[j].ref = ref
        /\ user_stories[i].regeneration_needed
        /\ ~user_stories'[j].regeneration_needed

\* Regeneration task t ends in this step, after its except block ("raised")
\* or after its last statement ("finished").
RegenEndsAs(t, how) ==
    RegenEnds(t) /\ response'.op = "regen_tests_task" /\ response'.status = how

\* C19: the regeneration_needed flag of a story goes from true to false only
\* in the step that ends, without an error, a regenerate_story_tests task
\* holding that story; a task that ends in its except block leaves every
\* story, flag included, and the status of the job as they were.
C19_FlagClearedOnlyBySuccess ==
    [][ /\ \A ref \in 1..nextRef :
             FlagCleared(ref)
             => \E t \in TaskIds : RegenEndsAs(t, "finished") /\ tasks[t].story.ref = ref
        /\ \A t \in TaskIds :
             RegenEndsAs(t, "raised")
             => (user_stories' = user_stories /\ status' = status /\ status # "failed")
      ]_vars

\* Story s1 was edited, which flagged it, and a regeneration of s1 has ended
\* without an error: s1 is no longer flagged.
C19_Witness ==
    /\ response.op = "regen_tests_task" /\ response.status = "finished"
    /\ response.arg = "s1"
    /\ \E i \in 1..Len(user_stories) :
          /\ user_stories[i].id = "s1" /\ user_stories[i].edited_at # 0
          /\ ~user_stories[i].regeneration_needed

\* ------------------------------------------------------------ step names
\* C21: no two steps of the job have the same name.
C21_StepNamesUnique ==
    \A i \in 1..Len(steps) : \A j \in 1..Len(steps) :
        i # j => steps[i].name # steps[j].name

\* The first step of that name in the list, 0 when there is none.
StepNamed(ss, name) ==
    LET IsName(x) == x.name = name
    IN  SelectIdx(ss, IsName, 1)

\* C22: update_step with a name no step has leaves the step list and every
\* other field of the job and its artifacts as they are; with a known name
\* the first step of that name gets the status, and the duration when one
\* is given, and nothing else changes.
C22_UpdateStepFrame ==
    [][ HandledBy("update_step")
        => LET name == response'.arg
               i == StepNamed(steps, name)
           IN  /\ UNCHANGED <<exists, artefacts, status, error, brd_data, brd_file,
                              current_stage, stage_history, storeVars>>
               /\ Len(steps') = Len(steps)
               /\ \A k \in 1..Len(steps) : k # i => steps'[k] = steps[k]
               /\ i # 0 => /\ steps'[i].name = name
                           /\ steps'[i].status = response'.status
                           /\ steps'[i].duration_ms =
                                 IF response'.n1 = 1 THEN "ms" ELSE steps[i].duration_ms
      ]_vars

\* A step was completed with a duration by an earlier call while a second
\* step of the same name stayed pending, and the last call named a step the
\* job does not have.
C22_Witness ==
    /\ response.op = "update_step" /\ response.arg = "Generating Report"
    /\ StepNamed(steps, response.arg) = 0
    /\ \E i \in 1..Len(steps) : \E j \in 1..Len(steps) :
          /\ i < j /\ steps[i].name = steps[j].name
          /\ steps[i].status = "completed" /\ steps[i].duration_ms = "ms"
          /\ steps[j].status = "pending" /\ steps[j].duration_ms = None

\* ------------------------------------------------------- disabled stages
\* Task t enters the generator call of phase p in this step.
GeneratorInvoked(t, p) ==
    /\ tasks'[t].pc = "mid" /\ tasks'[t].phase = p
    /\ ~(tasks[t].pc = "mid" /\ tasks[t].phase = p)

\* C24: the generator of a stage is invoked, by a monolithic run or by a
\* staged generation, only when the toggle of the stage is enabled in the
\* configuration of the job.
C24_NoGenerationForDisabledStage ==
    [][ \A t \in TaskIds : \A p \in 1..Len(PhaseStep) :
          GeneratorInvoked(t, p) => ConfigEnabled(p) ]_vars

\* -------------------------------------------------------- stage sequence
StageIndex(stage) == CHOOSE i \in 1..Len(Stages) : Stages[i] = stage

\* Every enabled stage before stage in the order has a completed StageState.
PredecessorsCompleted(stage) ==
    \A i \in 1..Len(Stages) :
        (i < StageIndex(stage) /\ ConfigEnabled(PhaseOfStage(Stages[i])))
        => \E k \in 1..Len(stage_history) :
              /\ stage_history[k].stage = Stages[i]
              /\ stage_history[k].status = "completed"

\* C25: proceed_to_stage starts a stage (status started) only when every
\* enabled stage before it in the order has completed, and then
\* current_stage does not move backwards.
C25_StageSequenceEnforced ==
    [][ (HandledBy("proceed_to_stage") /\ response'.status = "started")
        => /\ PredecessorsCompleted(response'.arg)
           /\ current_stage # None
                 => StageIndex(current_stage) <= StageIndex(current_stage') ]_vars

\* ------------------------------------------------- order of a monolithic run
\* Run t enters the generator call of a stage in this step only after it
\* has finished the parse and, of the stages, only earlier ones.
RunKeepsOrder(t) ==
    \A p \in 1..Len(PhaseStep) :
        GeneratorInvoked(t, p)
        => (0 \in tasks[t].ran /\ \A q \in tasks[t].ran : q < p)

\* Run t enters the parser call in this step.
ParseStarts(t) ==
    tasks[t].pc = "queued" /\ tasks'[t].pc = "mid" /\ tasks'[t].phase = 0

\* C26: a monolithic run generates a stage only after its parse and after
\* the stages before it, and it parses the document only when the job does
\* not hold a parsed document yet.
C26_ParseOnceThenStagesInOrder ==
    [][ \A t \in TaskIds :
          tasks[t].kind = "run"
          => (RunKeepsOrder(t) /\ (ParseStarts(t) => ~brd_data.parsed)) ]_vars

\* ---------------------------------------------------------- stage history
\* C30: the stage history never holds two StageStates of one stage that
\* are both running.
C30_OneRunningStatePerStage ==
    \A i \in 1..Len(stage_history) : \A j \in 1..Len(stage_history) :
        (i # j /\ stage_history[i].stage = stage_history[j].stage)
        => ~(stage_history[i].status = "running" /\ stage_history[j].status = "running")

\* The last StageState of that stage in the history, 0 when there is none.
LastStateOf(hist, stage) ==
    IF \E k \in 1..Len(hist) : hist[k].stage = stage
    THEN CHOOSE k \in 1..Len(hist) :
            /\ hist[k].stage = stage
            /\ \A m \in 1..Len(hist) : hist[m].stage = stage => m <= k
    ELSE 0

\* C27: a proceed_to_stage request that advances the stage while a current
\* stage exists completes and approves the last StageState of the current
\* stage, appends one running StageState for the requested stage, makes it
\* the current stage and leaves the other StageStates as they were.
C27_AdvanceStageFrame ==
    [][ ( /\ HandledBy("proceed_to_stage")
          /\ stage_history' # stage_history
          /\ current_stage # None )
        => LET n == Len(stage_history)
               last == LastStateOf(stage_history, current_stage)
           IN  /\ Len(stage_history') = n + 1
               /\ stage_history'[n + 1] =
                     [stage |-> response'.arg, status |-> "running",
                      completed_at |-> FALSE, user_approved |-> FALSE]
               /\ current_stage' = response'.arg
               /\ \A k \in 1..n : k # last => stage_history'[k] = stage_history[k]
               /\ last # 0
                     => stage_history'[last] =
                           [stage_history[last] EXCEPT !.status = "completed",
                                                       !.completed_at = TRUE,
                                                       !.user_approved = TRUE] ]_vars

\* ------------------------------------------------------ staged generation
\* The positions of the StageStates of that stage in the history.
StatesOf(hist, stage) == {k \in 1..Len(hist) : hist[k].stage = stage}

StageTaskFinishes(t) == tasks[t].kind = "stage" /\ TaskEnds(t) /\ ~TaskRaised(t)
StageTaskRaises(t) == tasks[t].kind = "stage" /\ TaskRaised(t)

\* C28: when the staged generation of stage X finishes without an
\* exception and the history holds a single StageState of X, the one the
\* request of this generation appended, that StageState is completed.
C28_FinishedStageIsCompleted ==
    [][ \A t \in TaskIds :
          (StageTaskFinishes(t) /\ Cardinality(StatesOf(stage_history, tasks[t].stage)) = 1)
          => \A k \in StatesOf(stage_history', tasks[t].stage) :
                stage_history'[k].status = "completed" ]_vars

\* C29: when a staged generation raises, the job becomes failed with the
\* error recorded and the stage history is left as it was: no StageState is
\* completed or failed by the failure, a running one stays running.
C29_FailedStageStaysRunning ==
    [][ \A t \in TaskIds :
          StageTaskRaises(t)
          => /\ status' = "failed" /\ error' # None
             /\ stage_history' = stage_history
             /\ \A k \in 1..Len(stage_history') : stage_history'[k].status # "failed"
      ]_vars

\* The generation of EPICS, the only stage requested, has raised: the job is
\* failed and the StageState of EPICS is running.
C29_Witness ==
    /\ status = "failed" /\ error = PhaseStep[1]
    /\ current_stage = "EPICS"
    /\ Len(stage_history) = 1
    /\ stage_history[1].stage = "EPICS" /\ stage_history[1].status = "running"
    /\ \E t \in TaskIds : /\ tasks[t].kind = "stage" /\ tasks[t].pc = "done"
                          /\ tasks[t].stage = "EPICS" /\ tasks[t].phase \notin tasks[t].ran

\* C23: jobs are independent.  A request on the job "j1" (or on an unknown
\* job) and a step of one of its tasks, failures included, leave the other
\* job as it is: its status, error, steps, stage history and artifacts.  A
\* generation of the other job that is waiting to start ends whatever
\* happens to "j1", and when it ends without an error of its own its stage
\* is completed.
JobStep ==
    \/ nreq' = nreq + 1 /\ response'.job # OtherJobId
    \/ tasks' # tasks
C23_JobsIndependent ==
    /\ [][JobStep => other' = other]_vars
    /\ (other.pc = "queued") ~> (other.pc = "done")
    /\ [](other.pc = "done" /\ other.status # "failed"
            => stage_already_completed(other.stage_history, "EPICS"))

\* The generation of "j1" has failed and the stage of the other job, which
\* was generated next to it, is completed with its artifacts stored.
C23_Witness ==
    /\ status = "failed"
    /\ \E t \in TaskIds : tasks[t].pc = "done" /\ tasks[t].phase \notin tasks[t].ran
    /\ other.pc = "done" /\ other.status = "pending"
    /\ stage_already_completed(other.stage_history, "EPICS")
    /\ other.epics # <<>>

\* C31: an edit of a story's core fields or of its acceptance criteria that
\* is accepted deletes nothing.  The first story of that id gets
\* regeneration_needed and the time of the edit; every other story, the
\* epics, the functional tests, the Gherkin scenarios, the entities and the
\* diagram are left as they were, and so are the tasks of the job.
StoryEditOps == {"update_story", "update_acceptance_criteria"}
C31_EditKeepsDerivedArtifacts ==
    [][ (\E op \in StoryEditOps : HandledBy(op)) /\ response'.code = 200
        => LET sid == response'.arg
               first == CHOOSE i \in 1..Len(user_stories) :
                           /\ user_stories[i].id = sid
                           /\ \A k \in 1..(i - 1) : user_stories[k].id # sid
           IN  /\ \E i \in 1..Len(user_stories) : user_stories[i].id = sid
               /\ Len(user_stories') = Len(user_stories)
               /\ \A i \in 1..Len(user_stories) :
                     i # first => user_stories'[i] = user_stories[i]
               /\ user_stories'[first].id = sid
               /\ user_stories'[first].epic_id = user_stories[first].epic_id
               /\ user_stories'[first].regeneration_needed
               /\ user_stories'[first].edited_at = clock'
               /\ clock' > clock
               /\ UNCHANGED <<epics, functional_tests, gherkin_tests, entities, mermaid,
                              code_skeleton, gap_fixes, tasks, jobVars>> ]_vars

\* A story that has tests and scenarios was edited: it is flagged and its
\* tests are all still there.
C31_Witness ==
    /\ response.op \in StoryEditOps /\ response.code = 200
    /\ \E i \in 1..Len(user_stories) :
          /\ user_stories[i].id = response.arg
          /\ user_stories[i].regeneration_needed
          /\ user_stories[i].edited_at = clock
    /\ \E i \in 1..Len(functional_tests) : functional_tests[i].story_id = response.arg
    /\ \E i \in 1..Len(gherkin_tests) : gherkin_tests[i].story_id = response.arg

\* C32: an entity regeneration requested for the story S that succeeds works
\* on A, the id of S and the ids of the stories flagged regeneration_needed
\* when it runs: the entities derived from a story of A are removed, every
\* other entity is kept as it was and in its place, each new entity is
\* derived from exactly A, and the diagram is replaced by the new one.
EntityRegenSucceeds ==
    /\ response'.op = "regen_entities_task" /\ response'.status = "finished"
    /\ \E t \in TaskIds : tasks[t].kind = "regen_entities" /\ tasks[t].pc = "mid"
Flagged == {user_stories[i].id : i \in {k \in 1..Len(user_stories) :
                                          user_stories[k].regeneration_needed}}
EntityRegenWorksOn(A) ==
    LET kept == SelectSeq(entities, LAMBDA e : e.source_story_ids \cap A = {})
    IN  /\ Len(entities') >= Len(kept)
        /\ SubSeq(entities', 1, Len(kept)) = kept
        /\ \A i \in (Len(kept) + 1)..Len(entities') :
              /\ entities'[i].source_story_ids = A
              /\ entities'[i].regenerated_at = clock'
        /\ mermaid' = clock' /\ clock' > clock
        /\ UNCHANGED <<epics, user_stories, functional_tests, gherkin_tests, gap_fixes>>
C32_EntityRegenReplacesAffected ==
    [][ EntityRegenSucceeds => EntityRegenWorksOn({response'.arg} \cup Flagged) ]_vars

\* C33: the cascade analysis is read-only.  Whatever the job and story
\* identifiers, the request changes no field of the job, none of its
\* artifacts and none of its tasks; when it is answered, the counts it
\* reports are the number of functional tests and Gherkin scenarios of the
\* story and the number of entities derived from it.
C33_CascadeAnalysisReadOnly ==
    [][ HandledBy("analyze_cascade_impact")
        => LET sid == response'.arg
               nf == Cardinality({i \in 1..Len(functional_tests) :
                                     functional_tests[i].story_id = sid})
               ng == Cardinality({i \in 1..Len(gherkin_tests) :
                                     gherkin_tests[i].story_id = sid})
               ne == Cardinality({i \in 1..Len(entities) :
                                     sid \in entities[i].source_story_ids})
           IN  /\ UNCHANGED <<jobVars, storeVars, tasks, clock>>
               /\ response'.code \in {200, 404}
               /\ response'.code = 200
                  => /\ response'.n1 = nf + ng /\ response'.n2 = ne
                     /\ impact' = Append(impact, DependencyImpact(nf + ng, ne)) ]_vars

\* An analysis answered for a story that has tests and an entity derived
\* from it, next to an entity that is not derived from it.
C33_Witness ==
    /\ response.op = "analyze_cascade_impact" /\ response.code = 200
    /\ response.n1 >= 2 /\ response.n2 = 1
    /\ \E i \in 1..Len(entities) : response.arg \notin entities[i].source_story_ids

\* C34: generate_more is additive.  Neither the request nor a step of its
\* task, whatever the stage and however the generator call ends, removes or
\* changes an artifact: every collection keeps the entries it had, in their
\* places, and the diagram and the gap fixes stay as they are.  When the
\* request names context_ids, the stories passed to the generator are
\* stories of the job whose id is one of them.
MoreStep ==
    \/ HandledBy("generate_more")
    \/ \E t \in TaskIds : tasks[t].kind = "more" /\ tasks'[t] # tasks[t]
Extends(new, old) == Len(new) >= Len(old) /\ SubSeq(new, 1, Len(old)) = old
C34_GenerateMoreIsAdditive ==
    [][ MoreStep
        => /\ Extends(epics', epics) /\ Extends(user_stories', user_stories)
           /\ Extends(functional_tests', functional_tests)
           /\ Extends(gherkin_tests', gherkin_tests)
           /\ Extends(entities', entities)
           /\ UNCHANGED <<mermaid, code_skeleton, gap_fixes, jobVars>>
           /\ \A t \in TaskIds :
                 (tasks[t].kind = "more" /\ tasks[t].pc = "queued"
                  /\ tasks'[t].pc = "mid" /\ tasks[t].context # {})
                 => /\ Range(gen_call'.stories) \subseteq tasks[t].context
                    /\ Range(gen_call'.stories) \subseteq StoryIdsOf(user_stories) ]_vars

\* A generate_more task with context_ids has appended tests to a job that
\* held tests of other stories; the generator was given the story of the
\* context only.
C34_Witness ==
    /\ response.op = "generate_more_task" /\ response.status = "finished"
    /\ response.n1 >= 1
    /\ gen_call.kind = "functional_tests" /\ gen_call.stories = <<"s1">>
    /\ Len(user_stories) = 3
    /\ Len(functional_tests) > 4

AcceptedGapIds ==
    LET acc == SelectSeq(gap_fixes, LAMBDA gf : \/ gf.user_action \in {"accept", "accepted"}
                                                \/ /\ gf.user_action \in {"edit", "edited"}
                                                   /\ gf.final_text)
    IN  [i \in 1..Len(acc) |-> acc[i].gap_id]
\* C35: the gap fixes the user has accepted, or edited with a final text,
\* are part of the generator request of a regeneration, the pending and
\* rejected ones are not, and an accepted gap fix does not keep the
\* regeneration from making its request: the task that starts goes on to
\* the generator call, with exactly those gap fixes.
C35_AcceptedGapFixesAreSent ==
    [][ \A t \in TaskIds :
          (tasks[t].kind \in {"regen_tests", "regen_entities", "more"}
           /\ tasks[t].pc = "queued" /\ tasks'[t].pc # "queued")
          => /\ tasks'[t].pc = "mid"
             /\ gen_call'.gap_fixes = AcceptedGapIds ]_vars

\* C36: a proceed_to_stage request that is answered with an error (unknown
\* job, invalid stage name, document not found) leaves the current stage and
\* the stage history of the job as they were and starts no generation.
C36_RejectedStageRequestChangesNothing ==
    [][ HandledBy("proceed_to_stage") /\ response'.code # 200 /\ response'.job # OtherJobId
        => UNCHANGED <<current_stage, stage_history, tasks>> ]_vars

\* C37: the statuses failed and completed are terminal.  Once the status of
\* the job is failed or completed it never changes again, whatever is
\* requested afterwards, and a completed job has no error recorded.
C37_FinalStatusIsTerminal ==
    /\ [][ (status \in {"failed", "completed"}) => (status' = status) ]_vars
    /\ [](status = "completed" => error = None)

StagedDone ==
    /\ exists /\ status # "failed"
    /\ [k \in 1..Len(stage_history) |-> stage_history[k].stage]
          = SelectSeq(Stages, LAMBDA st : ConfigEnabled(PhaseOfStage(st)))
    /\ \A i \in 1..Len(Stages) :
          ConfigEnabled(PhaseOfStage(Stages[i]))
          => /\ \E k \in 1..Len(stage_history) :
                   /\ stage_history[k].stage = Stages[i]
                   /\ stage_history[k].status = "completed"
             /\ \E t \in TaskIds : /\ tasks[t].kind = "stage" /\ tasks[t].stage = Stages[i]
                                    /\ tasks[t].pc = "done"
                                    /\ PhaseOfStage(Stages[i]) \in tasks[t].ran
    /\ \A t \in TaskIds : tasks[t].pc = "done" /\ tasks[t].phase \in tasks[t].ran
\* C38: a job driven through the staged run alone, every generator call
\* succeeding, eventually reaches the status completed.  Once the enabled
\* stages have been requested one after the other in their order, each has
\* a completed StageState and every generation the requests started has
\* finished without an error, the job becomes completed.
C38_StagedJobCompletes == StagedDone ~> (status = "completed")

\* The story object task t holds was edited after the request captured it.
EditedSinceRequest(t) ==
    /\ tasks[t].kind = "regen_tests" /\ tasks[t].pc # "done"
    /\ \E i \in 1..Len(user_stories) :
          /\ user_stories[i].ref = tasks[t].story.ref
          /\ user_stories[i].edited_at > tasks[t].story.edited_at

\* The story of that object is flagged after the step.
StillFlagged(t) ==
    \A i \in 1..Len(user_stories') :
        user_stories'[i].ref = tasks[t].story.ref => user_stories'[i].regeneration_needed

\* C39 as stated: the flag of a story edited since the request is still
\* true once the regeneration has finished.
C39_AsStated ==
    [][ \A t \in TaskIds :
          (EditedSinceRequest(t) /\ RegenEndsAs(t, "finished")) => StillFlagged(t) ]_vars

\* C39, amended: the task reads the story when it starts, not when it was
\* requested, so its generator request is built from the story as edited
\* (the chunks of the request are those of the current criteria); no edit
\* of the story is handled between the start and the end of the task; the
\* flag is false once the regeneration has finished without an error and
\* left as it was when the regeneration ended in its except block.
C39_EditBeforeStartIsRegenerated ==
    [][ \A t \in TaskIds :
          /\ (tasks[t].kind = "regen_tests" /\ tasks[t].pc = "queued" /\ tasks'[t].pc = "mid")
             => \A i \in 1..Len(user_stories) :
                   user_stories[i].ref = tasks[t].story.ref
                   => /\ gen_call'.stories = <<user_stories[i].id>>
                      /\ gen_call'.chunks = brd_chunks(chunk_ids(<<user_stories[i]>>))
          /\ (tasks[t].kind = "regen_tests" /\ tasks[t].pc \in {"mid", "swap"})
             => /\ Len(user_stories') = Len(user_stories)
                /\ \A i \in 1..Len(user_stories) :
                      [user_stories'[i] EXCEPT !.regeneration_needed = FALSE]
                         = [user_stories[i] EXCEPT !.regeneration_needed = FALSE]
          /\ (EditedSinceRequest(t) /\ RegenEndsAs(t, "finished")) => ~StillFlagged(t)
          /\ (EditedSinceRequest(t) /\ RegenEndsAs(t, "raised"))
             => user_stories' = user_stories
      ]_vars

\* The criteria of story s1 were replaced after a regeneration of its tests
\* was requested; the task has made its requests with the story as edited
\* and is about to store the scenarios and clear the flag.
C39_Witness ==
    \E t \in TaskIds :
        /\ EditedSinceRequest(t)
        /\ tasks[t].story.id = "s1" /\ tasks[t].story.acceptance_criteria # <<>>
        /\ tasks[t].pc = "swap" /\ tasks[t].phase = 4
        /\ \E i \in 1..Len(user_stories) :
              /\ user_stories[i].ref = tasks[t].story.ref
              /\ user_stories[i].acceptance_criteria = <<>>
              /\ user_stories[i].regeneration_needed

InvokeTried == invoke.pc = "try" /\ invoke'.tries = invoke.tries + 1
\* C40: one call of _invoke_claude always ends, by returning the parsed
\* reply or by raising an error, never by running off the end of the
\* function; it makes at most max_retries + 1 = 6 attempts, goes on to
\* another attempt only after a JSON parse error or a throttling error, and
\* raises at once on any other error.
C40_InvokeEndsWithinSixAttempts ==
    /\ [](invoke.pc # "fell_through")
    /\ [](invoke.pc = "returned"
            => /\ invoke.reply.kind = "text"
               /\ json_loads(invoke.reply.content) # "JSONDecodeError"
               /\ invoke.result = json_loads(invoke.reply.content)
               /\ invoke.raised = None)
    /\ [](invoke.pc = "raised" => invoke.raised \in {"ValueError", "RuntimeError"})
    /\ [](invoke.tries <= max_retries + 1 /\ invoke.tries <= 6)
    /\ [][ (InvokeTried /\ invoke'.pc = "try")
           => /\ \/ /\ invoke'.reply.kind = "text"
                    /\ json_loads(invoke'.reply.content) = "JSONDecodeError"
                 \/ /\ invoke'.reply.kind = "ClientError"
                    /\ invoke'.reply.code = "ThrottlingException"
              /\ invoke'.attempt = invoke.attempt + 1 ]_vars
    /\ [][ (InvokeTried /\ \/ invoke'.reply.kind = "Exception"
                           \/ /\ invoke'.reply.kind = "ClientError"
                              /\ invoke'.reply.code # "ThrottlingException")
           => (invoke'.pc = "raised" /\ invoke'.slept = invoke.slept) ]_vars
    /\ (invoke.pc = "try") ~> (invoke.pc \in {"returned", "raised"})

\* The call was throttled or got a text that is not JSON five times, slept
\* 2 + 4 + 8 + 16 + 32 seconds, and its sixth attempt returned the parsed
\* reply.
C40_Witness ==
    /\ invoke.pc = "returned" /\ invoke.result = "dict"
    /\ invoke.attempt = max_retries /\ invoke.tries = 6
    /\ invoke.last_error = "ClientError"
    /\ invoke.slept = 62
====
